---- MODULE Spec2Model ----
(***************************************************************************)
(* Siet-Bus-Tracking: the route-progress engine and the observer screens   *)
(* of the mobile client, the recipient directory of the notification       *)
(* server, and the tracking pipeline (location filter, session controller, *)
(* location store, distributor) behind them.                               *)
(*                                                                         *)
(* JavaScript values that may be a number or a non-number are records      *)
(* [k, n]: k is the JavaScript kind, n the payload (0 when there is none). *)
(* Latitudes are counted in metres of arc along one meridian (all finite   *)
(* longitudes are equal), so that the haversine distance of two points is  *)
(* exactly the absolute difference of their latitudes.  Speeds are counted *)
(* in tenths of a metre per second.                                        *)
(***************************************************************************)
EXTENDS Integers, Sequences, FiniteSets, TLC

VARIABLES
    \* MapScreen component state (MapScreen.js:128-140) and its memo
    routeStops, busLocation, isBusTracking, loading, progress,
    \* the observer screens' subscription effect
    screen, pc, unsubscribeFromBus, timeoutId, cleaned, listeners, lastEvent,
    calledAfterCleanup,
    \* the tracking pipeline: controller, store, samples in flight, distributor
    session, store, now, inFlight, subscribed, pending, view, subscribeCount, lastOp,
    \* the notification path: user directory and the last calls made on it,
    \* and the device-side token state of the push notification service
    users, lastRelay, removeLog, lastCall, cachedToken, tokenRefreshUnsubscribe,
    \* the backend client: the call in progress, its candidate base URLs,
    \* the requests sent for it and the failures collected
    request, candidates, attempts, errors,
    \* the device: the lastFcmToken field of users/{uid}, the listeners
    \* registered with messaging().onTokenRefresh, the useFcmTokenManager
    \* effect, and the calls of the push notification service in flight
    lastFcmToken, refreshListeners, hook, sync, refresh, removal

progressVars == <<routeStops, busLocation, isBusTracking, loading, progress>>
observerVars == <<screen, pc, unsubscribeFromBus, timeoutId, cleaned, listeners,
                  lastEvent, calledAfterCleanup>>

trackingVars == <<session, store, now, inFlight, subscribed, pending, view,
                  subscribeCount, lastOp>>

relayVars == <<users, lastRelay, removeLog, lastCall, cachedToken,
               tokenRefreshUnsubscribe>>

backendVars == <<request, candidates, attempts, errors>>

deviceVars == <<lastFcmToken, refreshListeners, hook, sync, refresh, removal>>

vars == <<progressVars, observerVars, trackingVars, relayVars, backendVars, deviceVars>>

(***************************************************************************)
(* JavaScript values                                                       *)
(***************************************************************************)
Num(n) == [k |-> "number", n |-> n]
Str(n) == [k |-> "string", n |-> n]
Bool(b) == [k |-> "boolean", n |-> IF b THEN 1 ELSE 0]
NaN == [k |-> "NaN", n |-> 0]
Undefined == [k |-> "undefined", n |-> 0]
Null == [k |-> "null", n |-> 0]

\* Number.isFinite(value)
IsFinite(value) == value.k = "number"

\* value ?? fallback
Coalesce(value, fallback) == IF value = Undefined \/ value = Null THEN fallback ELSE value

\* Boolean(value) for the scalar values above; the empty string is Str(0)
Truthy(value) ==
    CASE value.k = "number" -> value.n # 0
      [] value.k = "string" -> value.n # 0
      [] value.k = "boolean" -> value.n = 1
      [] OTHER -> FALSE

Abs(n) == IF n < 0 THEN -n ELSE n
Max(a, b) == IF a >= b THEN a ELSE b

(***************************************************************************)
(* ProgressEngine: MapScreen.routeProgress                                 *)
(***************************************************************************)
ARRIVAL_DISTANCE_THRESHOLD == 140

\* Number.POSITIVE_INFINITY, above every finite distance of the model
Infinity == 1000000000

Label(text, minutes, time) == [text |-> text, minutes |-> minutes, time |-> time]

\* great-circle distance of two points of one meridian, in metres
haversineDistance(pointA, pointB) ==
    IF ~IsFinite(pointA.latitude) \/ ~IsFinite(pointA.longitude)
         \/ ~IsFinite(pointB.latitude) \/ ~IsFinite(pointB.longitude)
    THEN Infinity
    ELSE Abs(pointB.latitude.n - pointA.latitude.n)

\* const busSpeed = Number(busLocation?.speed ?? 0), in tenths of m/s
busSpeedOf(location) ==
    IF location = Null THEN 0
    ELSE IF Coalesce(location.speed, Num(0)).k = "number"
         THEN Coalesce(location.speed, Num(0)).n ELSE 0

\* distances.reduce((best, distance, idx) => distance < distances[best] ? idx : best, 0)
\* indices are the 0-based indices of the code
RECURSIVE ReduceNearest(_, _, _)
ReduceNearest(distances, idx, best) ==
    IF idx >= Len(distances) THEN best
    ELSE ReduceNearest(distances, idx + 1,
                       IF distances[idx + 1] < distances[best + 1] THEN idx ELSE best)

\* variant: the ratio taken upside down, speed over distance
etaMinutesInverse(distance, busSpeed) ==
    Max((600 * Max(busSpeed, 1)) \div (Max(distance, 1) * 10), 1)

\* Math.max(Math.round((distance / Math.max(busSpeed, 0.1)) / 60), 1)
etaMinutes(distance, busSpeed) ==
    Max((distance + 3 * Max(busSpeed, 1)) \div (6 * Max(busSpeed, 1)), 1)

\* variant: a bus at exactly 0.5 m/s is taken to be moving
etaForDistanceStrict(distance, busSpeed) ==
    IF distance.k # "number" \/ distance.n >= Infinity THEN Label("", 0, Undefined)
    ELSE IF busSpeed < 5 THEN Label("Awaiting movement", 0, Undefined)
    ELSE IF etaMinutes(distance.n, busSpeed) <= 1 THEN Label("Arriving now", 0, Undefined)
    ELSE Label("Arriving in min", etaMinutes(distance.n, busSpeed), Undefined)

etaForDistance(distance, busSpeed) ==
    IF distance.k # "number" \/ distance.n >= Infinity THEN Label("", 0, Undefined)
    ELSE IF busSpeed <= 5 THEN Label("Awaiting movement", 0, Undefined)
    ELSE IF etaMinutes(distance.n, busSpeed) <= 1 THEN Label("Arriving now", 0, Undefined)
    ELSE Label("Arriving in min", etaMinutes(distance.n, busSpeed), Undefined)

enrichStop(stop, location) ==
    [latitude |-> stop.latitude, longitude |-> stop.longitude, time |-> stop.time,
     distanceMeters |-> IF location # Null THEN Num(haversineDistance(location, stop))
                        ELSE Null]

decorate(stop, status, etaLabel) ==
    [latitude |-> stop.latitude, longitude |-> stop.longitude, time |-> stop.time,
     distanceMeters |-> stop.distanceMeters, status |-> status, etaLabel |-> etaLabel]

\* variant: no stop is singled out as the next one
idleStopAllUpcoming(stop, index) ==
    decorate(stop, "upcoming",
             IF Truthy(stop.time) THEN Label("ETA", 0, stop.time)
             ELSE Label("Upcoming stop", 0, Undefined))

idleStop(stop, index) ==
    decorate(stop, IF index = 0 THEN "next" ELSE "upcoming",
             IF Truthy(stop.time) THEN Label("ETA", 0, stop.time)
             ELSE Label("Upcoming stop", 0, Undefined))

\* variant: the stop just before the nearest one is not yet completed
stopStatusStrictCompleted(idx, nearestIndex, nextIndex, isAtStop) ==
    IF isAtStop /\ idx = nearestIndex THEN "current"
    ELSE IF idx = nextIndex THEN "next"
    ELSE IF idx < Max(nearestIndex - 1, -1) THEN "completed"
    ELSE "upcoming"

\* variant: every stop from nextIndex on is taken for the next stop
stopStatusFromNext(idx, nearestIndex, nextIndex, isAtStop) ==
    IF isAtStop /\ idx = nearestIndex THEN "current"
    ELSE IF idx >= nextIndex THEN "next"
    ELSE IF idx <= Max(nearestIndex - 1, -1) THEN "completed"
    ELSE "upcoming"

stopStatus(idx, nearestIndex, nextIndex, isAtStop) ==
    IF isAtStop /\ idx = nearestIndex THEN "current"
    ELSE IF idx = nextIndex THEN "next"
    ELSE IF idx <= Max(nearestIndex - 1, -1) THEN "completed"
    ELSE "upcoming"

stopEtaLabel(stop, status, busSpeed) ==
    CASE status = "completed" ->
            IF Truthy(stop.time) THEN Label("Departed at", 0, stop.time)
            ELSE Label("Departed", 0, Undefined)
      [] status = "current" -> Label("At stop", 0, Undefined)
      [] status = "next" -> etaForDistance(stop.distanceMeters, busSpeed)
      [] OTHER ->
            IF Truthy(stop.time) THEN Label("Scheduled", 0, stop.time)
            ELSE Label("Upcoming stop", 0, Undefined)

\* variant: of equally near stops the last one wins (<= in the reduce)
nearestIndexOfLast(distances) ==
    CHOOSE best \in 0..(Len(distances) - 1) :
        /\ \A idx \in 0..(Len(distances) - 1) : distances[best + 1] <= distances[idx + 1]
        /\ \A idx \in (best + 1)..(Len(distances) - 1) :
              distances[best + 1] < distances[idx + 1]

nearestIndexOf(distances) == ReduceNearest(distances, 0, 0)

\* variant: arrival only strictly inside the threshold
isAtStopStrict(distances) ==
    distances[nearestIndexOf(distances) + 1] < ARRIVAL_DISTANCE_THRESHOLD

isAtStopOf(distances) ==
    distances[nearestIndexOf(distances) + 1] <= ARRIVAL_DISTANCE_THRESHOLD

\* variant: the index after the last stop is not turned into -1
nextIndexUncapped(isAtStop, nearestIndex, length) ==
    IF isAtStop THEN nearestIndex + 1 ELSE nearestIndex

\* let nextIndex = isAtStop ? nearestIndex + 1 : nearestIndex;
\* if (nextIndex >= enrichedStops.length) nextIndex = -1
nextIndexOf(isAtStop, nearestIndex, length) ==
    IF (IF isAtStop THEN nearestIndex + 1 ELSE nearestIndex) >= length THEN -1
    ELSE IF isAtStop THEN nearestIndex + 1 ELSE nearestIndex

routeProgress(stops, location, tracking) ==
    IF Len(stops) = 0 THEN [stops |-> << >>, currentIndex |-> -1, nextIndex |-> -1]
    ELSE
      LET enrichedStops == [i \in 1..Len(stops) |-> enrichStop(stops[i], location)]
      IN IF location = Null \/ ~tracking
         THEN [stops |-> [i \in 1..Len(stops) |-> idleStop(enrichedStops[i], i - 1)],
               currentIndex |-> -1,
               nextIndex |-> IF Len(enrichedStops) # 0 THEN 0 ELSE -1]
         ELSE
           LET distances == [i \in 1..Len(stops) |->
                               IF enrichedStops[i].distanceMeters.k = "number"
                               THEN enrichedStops[i].distanceMeters.n ELSE Infinity]
               nearestIndex == nearestIndexOf(distances)
               isAtStop == isAtStopOf(distances)
               currentIndex == IF isAtStop THEN nearestIndex ELSE -1
               nextIndex == nextIndexOf(isAtStop, nearestIndex, Len(enrichedStops))
               busSpeed == busSpeedOf(location)
               statusOf(idx) == stopStatus(idx, nearestIndex, nextIndex, isAtStop)
           IN [stops |-> [i \in 1..Len(stops) |->
                            decorate(enrichedStops[i], statusOf(i - 1),
                                     stopEtaLabel(enrichedStops[i], statusOf(i - 1), busSpeed))],
               currentIndex |-> currentIndex,
               nextIndex |-> nextIndex]

\* variant: the check for a non-empty stop list is left out
isRouteCompletedAnyList(progressValue) ==
    /\ progressValue.nextIndex = -1
    /\ progressValue.currentIndex >= Len(progressValue.stops) - 1

\* const isRouteCompleted = routeHasStops && nextIndex === -1 && currentIndex >= length - 1
isRouteCompleted(progressValue) ==
    /\ Len(progressValue.stops) > 0
    /\ progressValue.nextIndex = -1
    /\ progressValue.currentIndex >= Len(progressValue.stops) - 1

(***************************************************************************)
(* Inputs of the progress engine                                           *)
(***************************************************************************)
MaxStops == 3

StopLatitudes == {Num(0), Num(140), NaN}
BusLatitudes == {Num(0), Num(70), Num(140), Num(141)}
BusSpeeds == {Num(5), Num(6), Num(50)}

RouteStop == [latitude : StopLatitudes, longitude : {Num(0)}, time : {Undefined, Str(1)}]
\* a stop list either carries a scheduled time on every stop or on none:
\* normaliseRouteStops keeps id, name, latitude and longitude only
StopLists ==
    UNION {{stops \in [1..n -> RouteStop] : \A i \in 1..n : stops[i].time = time} :
              n \in 0..MaxStops, time \in {Undefined, Str(1)}}
BusSample == [latitude : BusLatitudes, longitude : {Num(0)}, speed : BusSpeeds,
              heading : {Num(0)}]

NoEvent == [kind |-> "none", snapshot |-> Null]

ObserverIdle ==
    /\ screen = "none"
    /\ pc = "unmounted"
    /\ unsubscribeFromBus = Null
    /\ timeoutId = Null
    /\ cleaned = FALSE
    /\ listeners = 0
    /\ lastEvent = NoEvent
    /\ calledAfterCleanup = FALSE

Subscribers == {"s1", "s2"}

IdleRecord == [sample |-> Null, sessionId |-> 0, isActive |-> FALSE]

NoOp == [op |-> "none", sample |-> Null, previous |-> Null, decision |-> "none",
         sessionId |-> 0, wasActive |-> FALSE, before |-> IdleRecord, raised |-> FALSE]

TrackingIdle ==
    /\ session = [sessionId |-> 0, isActive |-> FALSE, started |-> 0]
    /\ store = IdleRecord
    /\ now = 0
    /\ inFlight = {}
    /\ subscribed = [s \in Subscribers |-> FALSE]
    /\ pending = [s \in Subscribers |-> FALSE]
    /\ view = [s \in Subscribers |-> IdleRecord]
    /\ subscribeCount = 0
    /\ lastOp = NoOp

Uids == {"u1", "u2"}
UidOrder == <<"u1", "u2">>

NoDocument == [exists |-> FALSE, role |-> "", busNumber |-> "",
               fcmTokens |-> [isArray |-> FALSE, items |-> << >>]]

NoRelay == [busNumber |-> "", initiatedBy |-> "", excludeToken |-> "", recipients |-> << >>,
            targets |-> {}, results |-> {}, pruneCalls |-> << >>]

\* no resolver or device-side call made yet
NoCall == [op |-> "none", argument |-> "", token |-> "", lookup |-> "ok",
           raised |-> FALSE, value |-> << >>, tokens |-> << >>]

\* firebaseConfig.js:38-39: let tokenRefreshUnsubscribe = null; let cachedToken = null
ClientIdle ==
    /\ cachedToken = ""
    /\ tokenRefreshUnsubscribe = Null

\* no syncToken, token-refresh persist or logout in flight
NoSync == [stage |-> "idle", user |-> Null, token |-> "", isMounted |-> FALSE]
NoRefresh == [stage |-> "idle", listener |-> Null, token |-> ""]
NoRemoval == [stage |-> "idle", uid |-> "", token |-> "", pending |-> {},
              failed |-> FALSE, raised |-> FALSE]

DeviceIdle ==
    /\ lastFcmToken = [uid \in Uids |-> ""]
    /\ refreshListeners = << >>
    /\ hook = "unmounted"
    /\ sync = NoSync
    /\ refresh = NoRefresh
    /\ removal = NoRemoval

\* no backend call made yet
NoRequest == [op |-> "none", path |-> << >>, body |-> Null, config |-> Null,
              status |-> "idle", value |-> "", error |-> ""]

BackendIdle ==
    /\ request = NoRequest
    /\ candidates = << >>
    /\ attempts = << >>
    /\ errors = << >>

RelayIdle ==
    /\ users = [uid \in Uids |-> NoDocument]
    /\ lastRelay = NoRelay
    /\ removeLog = << >>
    /\ lastCall = NoCall
    /\ ClientIdle

\* the stop list, the sample and the tracking flag are the engine's inputs
ProgressInit ==
    /\ routeStops \in StopLists
    /\ busLocation \in BusSample \cup {Null}
    /\ isBusTracking \in BOOLEAN
    /\ loading = FALSE
    /\ progress = routeProgress(routeStops, busLocation, isBusTracking)
    /\ ObserverIdle
    /\ TrackingIdle
    /\ BackendIdle
    /\ DeviceIdle
    /\ RelayIdle

\* a new sample or tracking flag arrives: the memo is recomputed
NewSample(location, tracking) ==
    /\ busLocation' = location
    /\ isBusTracking' = tracking
    /\ progress' = routeProgress(routeStops, location, tracking)
    /\ UNCHANGED <<routeStops, loading, observerVars, trackingVars, relayVars, backendVars, deviceVars>>

ProgressNext ==
    \E location \in BusSample \cup {Null}, tracking \in BOOLEAN :
        NewSample(location, tracking)

SpecProgress == ProgressInit /\ [][ProgressNext]_vars

StatusCount(status) ==
    Cardinality({i \in 1..Len(progress.stops) : progress.stops[i].status = status})

\* C1: the route progress has at most one `current` stop, at most one
\* `next` stop, and the `completed` stops form a prefix of the stop list.
C1_StopClassification ==
    /\ Len(progress.stops) = Len(routeStops)
    /\ StatusCount("current") <= 1
    /\ StatusCount("next") <= 1
    /\ \A i, j \in 1..Len(progress.stops) :
          (progress.stops[j].status = "completed" /\ progress.stops[i].status # "completed")
             => j < i

C1_Witness ==
    /\ Len(progress.stops) = 3
    /\ progress.stops[1].status = "completed"
    /\ progress.stops[2].status = "current"
    /\ progress.stops[3].status = "next"

\* the distance from the sample to the nearest stop, taken from the output
NearestDistance ==
    CHOOSE d \in {progress.stops[i].distanceMeters.n : i \in 1..Len(progress.stops)} :
        \A i \in 1..Len(progress.stops) : d <= progress.stops[i].distanceMeters.n

Engaged == busLocation # Null /\ isBusTracking /\ Len(routeStops) > 0

\* C10: while tracking with a sample, some stop is `current` exactly when
\* the nearest stop is at most 140 m away: at 140 m there is a current
\* stop, at 141 m there is none.
C10_ArrivalThreshold ==
    Engaged =>
        /\ (StatusCount("current") = 1) <=> (NearestDistance <= 140)
        /\ (progress.currentIndex >= 0) <=> (NearestDistance <= 140)
        /\ progress.currentIndex >= 0 =>
              /\ progress.stops[progress.currentIndex + 1].status = "current"
              /\ progress.stops[progress.currentIndex + 1].distanceMeters.n = NearestDistance

C10_Witness ==
    /\ Engaged
    /\ NearestDistance = 140
    /\ StatusCount("current") = 1

C10_Witness141 ==
    /\ Engaged
    /\ NearestDistance = 141
    /\ StatusCount("current") = 0

\* the stop the engine reports as the next one, and the bus speed it used
NextStop == progress.stops[progress.nextIndex + 1]
BusSpeed == busSpeedOf(busLocation)

\* the minutes an ETA label announces: "Arriving now" stands for one minute,
\* a label without an arrival time for none
EtaMinutesOf(label) ==
    CASE label.text = "Arriving now" -> 1
      [] label.text = "Arriving in min" -> label.minutes
      [] OTHER -> 0

\* the next stop has an ETA in minutes: a moving bus and a finite distance
Timed ==
    /\ Engaged
    /\ progress.nextIndex >= 0
    /\ BusSpeed > 5
    /\ NextStop.distanceMeters.n < Infinity

\* C11: at a fixed speed above 0.5 m/s the ETA minutes do not decrease with
\* the distance: the minutes shown for the next stop at distance d2 are at
\* least one, and at least the minutes computed for every distance d1 <= d2.
C11_EtaMonotone ==
    Timed =>
        /\ EtaMinutesOf(NextStop.etaLabel) >= 1
        /\ \A d1 \in 0..NextStop.distanceMeters.n :
              /\ EtaMinutesOf(etaForDistance(Num(d1), BusSpeed)) >= 1
              /\ EtaMinutesOf(etaForDistance(Num(d1), BusSpeed))
                    <= EtaMinutesOf(NextStop.etaLabel)

\* at 0.6 m/s the next stop is 141 m away and four minutes off, while a
\* stop at 70 m would be two minutes off
C11_Witness ==
    /\ Timed
    /\ BusSpeed = 6
    /\ NextStop.distanceMeters.n = 141
    /\ EtaMinutesOf(NextStop.etaLabel) = 4
    /\ EtaMinutesOf(etaForDistance(Num(70), BusSpeed)) = 2

\* the 1-based position of the nearest stop, ties going to the lowest index
FirstNearest ==
    CHOOSE i \in 1..Len(progress.stops) :
        /\ progress.stops[i].distanceMeters.n = NearestDistance
        /\ \A j \in 1..(i - 1) : progress.stops[j].distanceMeters.n # NearestDistance

\* the status of the stop at 1-based position i, given the nearest stop and
\* whether the bus is within the arrival threshold of it
ExpectedStatus(i, nearest, atStop) ==
    IF i < nearest THEN "completed"
    ELSE IF atStop /\ i = nearest THEN "current"
    ELSE IF atStop /\ i = nearest + 1 THEN "next"
    ELSE IF ~atStop /\ i = nearest THEN "next"
    ELSE "upcoming"

\* C12: while tracking with a sample, every stop before the nearest one is
\* `completed`; at a stop the nearest one is `current` and the one after it
\* `next`; away from every stop the nearest one is `next`; every other stop
\* is `upcoming`.
C12_StatusFunction ==
    Engaged =>
        \A i \in 1..Len(progress.stops) :
            progress.stops[i].status
                = ExpectedStatus(i, FirstNearest,
                                 NearestDistance <= ARRIVAL_DISTANCE_THRESHOLD)

\* three stops, the bus exactly at the second
C12_Witness ==
    /\ Engaged
    /\ Len(progress.stops) = 3
    /\ progress.stops[2].distanceMeters = Num(0)
    /\ progress.stops[1].status = "completed"
    /\ progress.stops[2].status = "current"
    /\ progress.stops[3].status = "next"

\* three stops, the bus away from all of them and nearest to the second
C12_WitnessEnRoute ==
    /\ Engaged
    /\ Len(progress.stops) = 3
    /\ NearestDistance > ARRIVAL_DISTANCE_THRESHOLD
    /\ progress.stops[1].status = "completed"
    /\ progress.stops[2].status = "next"
    /\ progress.stops[3].status = "upcoming"

\* C13: without a sample or while tracking is not active, index 0 is `next`
\* and every other stop `upcoming`, currentIndex is -1 and nextIndex is 0,
\* or -1 for an empty stop list; no stop is `completed` or `current`.
C13_IdleProgress ==
    ~Engaged =>
        /\ Len(progress.stops) = Len(routeStops)
        /\ progress.currentIndex = -1
        /\ progress.nextIndex = (IF Len(routeStops) = 0 THEN -1 ELSE 0)
        /\ \A i \in 1..Len(progress.stops) :
              progress.stops[i].status = (IF i = 1 THEN "next" ELSE "upcoming")
        /\ StatusCount("completed") = 0
        /\ StatusCount("current") = 0

\* a sample within the threshold of the second of three stops, tracking off
C13_Witness ==
    /\ busLocation # Null
    /\ ~isBusTracking
    /\ Len(progress.stops) = 3
    /\ progress.stops[2].distanceMeters = Num(0)
    /\ progress.stops[1].status = "next"
    /\ progress.stops[2].status = "upcoming"
    /\ progress.stops[3].status = "upcoming"

C13_WitnessEmptyList ==
    /\ isBusTracking
    /\ busLocation # Null
    /\ Len(routeStops) = 0
    /\ progress.nextIndex = -1

\* Math.round(numerator / denominator): the integer m with
\* m - 1/2 <= numerator / denominator < m + 1/2
RoundHalfUp(numerator, denominator) ==
    CHOOSE m \in 0..(numerator + 1) :
        /\ (2 * m - 1) * denominator <= 2 * numerator
        /\ 2 * numerator < (2 * m + 1) * denominator

\* minutes = max(round(distance / max(speed, 0.1) / 60), 1), the speed in
\* tenths of a metre per second
ExpectedMinutes(distance, speed) ==
    Max(RoundHalfUp(distance * 10, 60 * Max(speed, 1)), 1)

\* C14: for a next stop at a finite distance the ETA label is "Awaiting
\* movement" when the speed is at most 0.5 m/s; otherwise it is "Arriving
\* now" when max(round(distance / max(speed, 0.1) / 60), 1) <= 1 and
\* "Arriving in {minutes} min" with these minutes otherwise.
C14_NextStopEtaLabel ==
    (Engaged /\ progress.nextIndex >= 0 /\ NextStop.distanceMeters.n < Infinity) =>
        /\ NextStop.status = "next"
        /\ BusSpeed <= 5 => NextStop.etaLabel = Label("Awaiting movement", 0, Undefined)
        /\ BusSpeed > 5 =>
              IF ExpectedMinutes(NextStop.distanceMeters.n, BusSpeed) <= 1
              THEN NextStop.etaLabel = Label("Arriving now", 0, Undefined)
              ELSE NextStop.etaLabel
                      = Label("Arriving in min",
                              ExpectedMinutes(NextStop.distanceMeters.n, BusSpeed),
                              Undefined)

\* 70 m at 0.6 m/s: "Arriving in 2 min"
C14_Witness ==
    /\ Engaged
    /\ progress.nextIndex >= 0
    /\ BusSpeed = 6
    /\ NextStop.distanceMeters.n = 70
    /\ NextStop.etaLabel = Label("Arriving in min", 2, Undefined)

\* 140 m at exactly 0.5 m/s: "Awaiting movement"
C14_WitnessAwaiting ==
    /\ Engaged
    /\ progress.nextIndex >= 0
    /\ BusSpeed = 5
    /\ NextStop.distanceMeters.n = 140
    /\ NextStop.etaLabel.text = "Awaiting movement"

\* 141 m at 5 m/s: "Arriving now"
C14_WitnessArrivingNow ==
    /\ Engaged
    /\ progress.nextIndex >= 0
    /\ BusSpeed = 50
    /\ NextStop.distanceMeters.n = 141
    /\ NextStop.etaLabel.text = "Arriving now"

\* C15: the route is reported complete exactly when there is no next stop
\* and the current stop is the last one; never for an empty stop list, never
\* without an active sample, never with the bus farther than the arrival
\* threshold from the last stop.
C15_RouteComplete ==
    /\ isRouteCompleted(progress)
          <=> /\ Len(routeStops) > 0
              /\ progress.nextIndex = -1
              /\ progress.currentIndex = Len(routeStops) - 1
    /\ isRouteCompleted(progress) =>
          /\ Engaged
          /\ progress.stops[Len(progress.stops)].status = "current"
          /\ progress.stops[Len(progress.stops)].distanceMeters.n
                <= ARRIVAL_DISTANCE_THRESHOLD

\* the bus 140 m from the last of three stops, the others farther away
C15_Witness ==
    /\ Engaged
    /\ Len(routeStops) = 3
    /\ progress.stops[3].distanceMeters.n = 140
    /\ isRouteCompleted(progress)

\* an empty stop list while tracking: no next stop, and not complete
C15_WitnessEmptyList ==
    /\ isBusTracking
    /\ busLocation # Null
    /\ Len(routeStops) = 0
    /\ progress.nextIndex = -1
    /\ progress.currentIndex = -1
    /\ ~isRouteCompleted(progress)

\* C24: while tracking with a sample, at a stop currentIndex is the nearest
\* index and nextIndex the one after it, or -1 when the nearest stop is the
\* last one; away from every stop currentIndex is -1 and nextIndex is the
\* nearest index.  In every case the stop at a non-negative currentIndex is
\* `current` and the stop at a non-negative nextIndex is `next`.
C24_AtStopRule ==
    /\ Engaged =>
          IF NearestDistance <= ARRIVAL_DISTANCE_THRESHOLD
          THEN /\ progress.currentIndex = FirstNearest - 1
               /\ progress.nextIndex = (IF FirstNearest = Len(routeStops) THEN -1
                                        ELSE FirstNearest)
          ELSE /\ progress.currentIndex = -1
               /\ progress.nextIndex = FirstNearest - 1
    /\ progress.currentIndex \in -1..(Len(routeStops) - 1)
    /\ progress.nextIndex \in -1..(Len(routeStops) - 1)
    /\ progress.currentIndex >= 0 =>
          progress.stops[progress.currentIndex + 1].status = "current"
    /\ progress.nextIndex >= 0 => progress.stops[progress.nextIndex + 1].status = "next"

\* at the last of three stops: no next stop
C24_Witness ==
    /\ Engaged
    /\ Len(routeStops) = 3
    /\ progress.currentIndex = 2
    /\ progress.nextIndex = -1
    /\ progress.stops[3].distanceMeters.n = 0

\* away from every stop, nearest to the third
C24_WitnessEnRoute ==
    /\ Engaged
    /\ Len(routeStops) = 3
    /\ progress.currentIndex = -1
    /\ progress.nextIndex = 2
    /\ NearestDistance = 141

\* the nearest index the engine worked with, as its result shows it
ObservedNearest ==
    IF progress.currentIndex >= 0 THEN progress.currentIndex ELSE progress.nextIndex

\* C25: the nearest index is the lowest index among the stops at minimal
\* distance from the sample, also when all distances are infinite.
C25_NearestLowestIndex ==
    Engaged =>
        /\ ObservedNearest \in 0..(Len(routeStops) - 1)
        /\ \A idx \in 0..(Len(routeStops) - 1) :
              /\ progress.stops[ObservedNearest + 1].distanceMeters.n
                    <= progress.stops[idx + 1].distanceMeters.n
              /\ progress.stops[idx + 1].distanceMeters.n
                    = progress.stops[ObservedNearest + 1].distanceMeters.n
                 => ObservedNearest <= idx

\* the first and the third of three stops are equally near, the second farther
C25_Witness ==
    /\ Engaged
    /\ Len(routeStops) = 3
    /\ progress.stops[1].distanceMeters.n = 1
    /\ progress.stops[2].distanceMeters.n = 141
    /\ progress.stops[3].distanceMeters.n = 1
    /\ ObservedNearest = 0

\* no stop has finite coordinates: all distances are infinite
C25_WitnessAllInfinite ==
    /\ Engaged
    /\ Len(routeStops) = 3
    /\ \A i \in 1..3 : progress.stops[i].distanceMeters.n = Infinity
    /\ ObservedNearest = 0

(***************************************************************************)
(* Observer screens: the location documents a listener can be handed       *)
(***************************************************************************)
\* currentLocation: finite without or with its own speed, or not finite
Coordinates ==
    { [latitude |-> Num(70), longitude |-> Num(0), speed |-> Undefined],
      [latitude |-> Num(70), longitude |-> Num(0), speed |-> Num(6)],
      [latitude |-> NaN, longitude |-> Num(0), speed |-> Undefined] }

\* the document's speed and heading: missing, finite, or a speed not finite
Telemetry ==
    { [speed |-> Undefined, heading |-> Undefined],
      [speed |-> Num(50), heading |-> Num(90)],
      [speed |-> NaN, heading |-> Undefined] }

LocationDocument ==
    { [isTracking |-> isTracking,
       activeTrackingSession |-> activeTrackingSession,
       trackingSessionId |-> trackingSessionId,
       currentLocation |-> currentLocation,
       speed |-> telemetry.speed,
       heading |-> telemetry.heading] :
         isTracking \in {Bool(TRUE), Bool(FALSE), Undefined},
         activeTrackingSession \in {Undefined, Null, Str(1)},
         trackingSessionId \in {Undefined, Null, Str(1)},
         currentLocation \in Coordinates \cup {Null},
         telemetry \in Telemetry }

\* what the snapshot callback may receive: a document, or null when absent
Snapshots == LocationDocument \cup {Null}

\* snapshot?.field
Field(snapshot, name) == IF snapshot = Null \/ snapshot = Undefined THEN Undefined
                         ELSE snapshot[name]

\* Boolean(a && b)
BooleanAnd(a, b) == Truthy(a) /\ Truthy(b)

\* MapScreen.js:508-513
mapTrackingActive(snapshot) ==
    LET sessionMarker == Coalesce(Field(snapshot, "activeTrackingSession"),
                                  Field(snapshot, "trackingSessionId"))
    IN BooleanAnd(Field(snapshot, "isTracking"),
                  IF sessionMarker # Undefined THEN sessionMarker
                  ELSE Field(snapshot, "isTracking"))

\* variant: coordinates count as valid as soon as the document carries them
mapHasCoords(snapshot) ==
    Field(snapshot, "currentLocation") # Null

\* MapScreen.js:514-515
mapHasValidCoords(snapshot) ==
    LET coords == Field(snapshot, "currentLocation")
    IN /\ IsFinite(Field(coords, "latitude"))
       /\ IsFinite(Field(coords, "longitude"))

\* Number(snapshot?.x ?? coords?.x ?? 0), replaced by 0 when not finite
mapNormalized(snapshot, name) ==
    LET coords == Field(snapshot, "currentLocation")
        value == Coalesce(Field(snapshot, name),
                          Coalesce(IF name = "speed" THEN Field(coords, "speed") ELSE Undefined,
                                   Num(0)))
    IN IF IsFinite(value) THEN value ELSE Num(0)

\* the busLocation MapScreen's snapshot callback sets (null: no marker)
mapOnSnapshot(snapshot) ==
    IF mapTrackingActive(snapshot) /\ mapHasValidCoords(snapshot)
    THEN [latitude |-> snapshot.currentLocation.latitude,
          longitude |-> snapshot.currentLocation.longitude,
          speed |-> mapNormalized(snapshot, "speed"),
          heading |-> mapNormalized(snapshot, "heading")]
    ELSE Null

\* BusLiveTrackingScreen.js:74-77
adminTrackingActive(locationData) ==
    BooleanAnd(Field(locationData, "isTracking"),
               Coalesce(Field(locationData, "activeTrackingSession"),
                        Coalesce(Field(locationData, "trackingSessionId"),
                                 Field(locationData, "isTracking"))))

\* variant: the callback shows any location the document carries
adminOnSnapshotStale(locationData) ==
    IF locationData # Null /\ locationData.currentLocation # Null
    THEN [latitude |-> locationData.currentLocation.latitude,
          longitude |-> locationData.currentLocation.longitude,
          speed |-> locationData.speed,
          heading |-> IF Truthy(locationData.heading) THEN locationData.heading ELSE Num(0),
          isTracking |-> Bool(adminTrackingActive(locationData))]
    ELSE Null

\* the busLocation BusLiveTrackingScreen's snapshot callback sets
adminOnSnapshot(locationData) ==
    IF locationData # Null /\ locationData.currentLocation # Null
         /\ adminTrackingActive(locationData)
    THEN [latitude |-> locationData.currentLocation.latitude,
          longitude |-> locationData.currentLocation.longitude,
          speed |-> locationData.speed,
          heading |-> IF Truthy(locationData.heading) THEN locationData.heading ELSE Num(0),
          isTracking |-> Bool(adminTrackingActive(locationData))]
    ELSE Null

(***************************************************************************)
(* Observer screens: route parameters                                      *)
(***************************************************************************)
\* the stops MapScreen starts from and falls back to
DEFAULT_ROUTE_STOPS ==
    << [latitude |-> Num(0), longitude |-> Num(0), time |-> Str(1)],
       [latitude |-> Num(140), longitude |-> Num(0), time |-> Str(1)] >>

RawStop == [latitude : {Num(70), NaN}, longitude : {Num(0)}, time : {Undefined}]

\* route.params.routeStops: not an array, or an array of raw stops and nulls
RawStopInputs ==
    { [isArray |-> FALSE, items |-> << >>],
      [isArray |-> TRUE, items |-> << >>],
      [isArray |-> TRUE, items |-> << Null, [latitude |-> NaN, longitude |-> Num(0),
                                             time |-> Undefined] >>],
      [isArray |-> TRUE, items |-> << [latitude |-> Num(70), longitude |-> Num(0),
                                       time |-> Undefined], Null >>] }

RECURSIVE cleanStops(_)
cleanStops(items) ==
    IF Len(items) = 0 THEN << >>
    ELSE LET stop == Head(items)
         IN IF stop = Null \/ ~IsFinite(stop.latitude) \/ ~IsFinite(stop.longitude)
            THEN cleanStops(Tail(items))
            ELSE << [latitude |-> stop.latitude, longitude |-> stop.longitude,
                     time |-> Undefined] >> \o cleanStops(Tail(items))

normaliseRouteStops(rawStops) ==
    IF ~rawStops.isArray THEN DEFAULT_ROUTE_STOPS
    ELSE IF Len(cleanStops(rawStops.items)) # 0 THEN cleanStops(rawStops.items)
    ELSE DEFAULT_ROUTE_STOPS

(***************************************************************************)
(* Observer screens: the subscription effects                              *)
(***************************************************************************)
Event(kind, snapshot) == [kind |-> kind, snapshot |-> snapshot]

\* the handle subscribeToBusLocation returns
Unsubscribe == [k |-> "function", n |-> 1]
Timer == [k |-> "timer", n |-> 1]

ObserverInit ==
    /\ screen \in {"MapScreen", "BusLiveTrackingScreen"}
    /\ routeStops = IF screen = "MapScreen" THEN DEFAULT_ROUTE_STOPS ELSE << >>
    /\ busLocation = Null
    /\ isBusTracking = FALSE
    /\ loading = TRUE
    /\ progress = routeProgress(routeStops, busLocation, isBusTracking)
    /\ pc = "unmounted"
    /\ unsubscribeFromBus = Null
    /\ timeoutId = Null
    /\ cleaned = FALSE
    /\ listeners = 0
    /\ lastEvent = NoEvent
    /\ calledAfterCleanup = FALSE
    /\ TrackingIdle
    /\ BackendIdle
    /\ DeviceIdle
    /\ RelayIdle

\* the state hooks of the mounted screen and the memo derived from them
SetScreenState(location, tracking, isLoading) ==
    /\ busLocation' = location
    /\ isBusTracking' = tracking
    /\ loading' = isLoading
    /\ progress' = routeProgress(routeStops', location, tracking)

\* MapScreen effect body: initialise() runs up to its first await
MapEffect ==
    /\ screen = "MapScreen" /\ pc = "unmounted"
    /\ pc' = "awaitCurrentUser"
    /\ UNCHANGED routeStops
    /\ SetScreenState(busLocation, isBusTracking, TRUE)
    /\ UNCHANGED <<trackingVars, relayVars, backendVars, deviceVars>>
    /\ lastEvent' = Event("effect", Null)
    /\ UNCHANGED <<screen, unsubscribeFromBus, timeoutId, cleaned, listeners,
                   calledAfterCleanup>>

\* authService.getCurrentUser() resolved: stops are set, the bus is
\* subscribed when a bus number is known, a student's position is awaited
MapCurrentUserResolved(rawStops, hasBus, isStudent) ==
    /\ screen = "MapScreen" /\ pc = "awaitCurrentUser"
    /\ routeStops' = normaliseRouteStops(rawStops)
    /\ IF hasBus
       THEN /\ unsubscribeFromBus' = Unsubscribe
            /\ listeners' = listeners + 1
       ELSE UNCHANGED <<unsubscribeFromBus, listeners>>
    /\ pc' = IF isStudent THEN "awaitStudentLocation" ELSE "initialised"
    /\ SetScreenState(busLocation, isBusTracking, IF isStudent THEN loading ELSE FALSE)
    /\ UNCHANGED <<trackingVars, relayVars, backendVars, deviceVars>>
    /\ lastEvent' = Event("currentUser", Null)
    /\ UNCHANGED <<screen, timeoutId, cleaned, calledAfterCleanup>>

\* authService.getCurrentUser() rejected: catch, then finally
MapCurrentUserRejected ==
    /\ screen = "MapScreen" /\ pc = "awaitCurrentUser"
    /\ pc' = "initialised"
    /\ UNCHANGED routeStops
    /\ SetScreenState(busLocation, isBusTracking, FALSE)
    /\ UNCHANGED <<trackingVars, relayVars, backendVars, deviceVars>>
    /\ lastEvent' = Event("currentUserError", Null)
    /\ UNCHANGED <<screen, unsubscribeFromBus, timeoutId, cleaned, listeners,
                   calledAfterCleanup>>

\* ensureStudentLocation() settled (it catches its own errors)
MapStudentLocationSettled ==
    /\ screen = "MapScreen" /\ pc = "awaitStudentLocation"
    /\ pc' = "initialised"
    /\ UNCHANGED routeStops
    /\ SetScreenState(busLocation, isBusTracking, FALSE)
    /\ UNCHANGED <<trackingVars, relayVars, backendVars, deviceVars>>
    /\ lastEvent' = Event("studentLocation", Null)
    /\ UNCHANGED <<screen, unsubscribeFromBus, timeoutId, cleaned, listeners,
                   calledAfterCleanup>>

\* MapScreen effect cleanup
MapCleanup ==
    /\ screen = "MapScreen" /\ pc # "unmounted" /\ ~cleaned
    /\ listeners' = IF unsubscribeFromBus = Unsubscribe THEN 0 ELSE listeners
    /\ UNCHANGED routeStops
    /\ SetScreenState(Null, FALSE, loading)
    /\ cleaned' = TRUE
    /\ UNCHANGED <<trackingVars, relayVars, backendVars, deviceVars>>
    /\ lastEvent' = Event("cleanup", Null)
    /\ UNCHANGED <<screen, pc, unsubscribeFromBus, timeoutId, calledAfterCleanup>>

\* BusLiveTrackingScreen effect body: timer, then synchronous subscription
AdminEffect ==
    /\ screen = "BusLiveTrackingScreen" /\ pc = "unmounted"
    /\ timeoutId' = Timer
    /\ unsubscribeFromBus' = Unsubscribe
    /\ listeners' = listeners + 1
    /\ pc' = "initialised"
    /\ UNCHANGED <<trackingVars, relayVars, backendVars, deviceVars>>
    /\ lastEvent' = Event("effect", Null)
    /\ UNCHANGED <<screen, cleaned, calledAfterCleanup, progressVars>>

\* the 5 s loading timeout fires
AdminTimeout ==
    /\ screen = "BusLiveTrackingScreen" /\ timeoutId = Timer
    /\ timeoutId' = Null
    /\ loading' = FALSE
    /\ UNCHANGED <<trackingVars, relayVars, backendVars, deviceVars>>
    /\ lastEvent' = Event("timeout", Null)
    /\ UNCHANGED <<routeStops, busLocation, isBusTracking, progress, screen, pc,
                   unsubscribeFromBus, cleaned, listeners, calledAfterCleanup>>

\* BusLiveTrackingScreen effect cleanup
AdminCleanup ==
    /\ screen = "BusLiveTrackingScreen" /\ pc # "unmounted" /\ ~cleaned
    /\ timeoutId' = Null
    /\ listeners' = IF unsubscribeFromBus # Null THEN 0 ELSE listeners
    /\ cleaned' = TRUE
    /\ UNCHANGED <<trackingVars, relayVars, backendVars, deviceVars>>
    /\ lastEvent' = Event("cleanup", Null)
    /\ UNCHANGED <<screen, pc, unsubscribeFromBus, calledAfterCleanup, progressVars>>

\* the listener of the mounted screen is handed a snapshot
DeliverSnapshot(snapshot) ==
    /\ listeners > 0
    /\ IF screen = "MapScreen"
       THEN /\ UNCHANGED routeStops
            /\ SetScreenState(mapOnSnapshot(snapshot), mapOnSnapshot(snapshot) # Null, loading)
            /\ UNCHANGED timeoutId
       ELSE /\ busLocation' = adminOnSnapshot(snapshot)
            /\ loading' = FALSE
            /\ timeoutId' = Null
            /\ UNCHANGED <<routeStops, isBusTracking, progress>>
    /\ UNCHANGED <<trackingVars, relayVars, backendVars, deviceVars>>
    /\ lastEvent' = Event("snapshot", snapshot)
    /\ calledAfterCleanup' = (calledAfterCleanup \/ cleaned)
    /\ UNCHANGED <<screen, pc, unsubscribeFromBus, cleaned, listeners>>

\* the listener of the mounted screen is handed a subscription error
DeliverError ==
    /\ listeners > 0
    /\ IF screen = "MapScreen"
       THEN /\ UNCHANGED routeStops
            /\ SetScreenState(Null, FALSE, loading)
            /\ UNCHANGED timeoutId
       ELSE /\ loading' = FALSE
            /\ timeoutId' = Null
            /\ UNCHANGED <<routeStops, busLocation, isBusTracking, progress>>
    /\ UNCHANGED <<trackingVars, relayVars, backendVars, deviceVars>>
    /\ lastEvent' = Event("error", Null)
    /\ calledAfterCleanup' = (calledAfterCleanup \/ cleaned)
    /\ UNCHANGED <<screen, pc, unsubscribeFromBus, cleaned, listeners>>

ObserverNext ==
    \/ MapEffect
    \/ \E rawStops \in RawStopInputs, hasBus \in BOOLEAN, isStudent \in BOOLEAN :
          MapCurrentUserResolved(rawStops, hasBus, isStudent)
    \/ MapCurrentUserRejected
    \/ MapStudentLocationSettled
    \/ MapCleanup
    \/ AdminEffect
    \/ AdminTimeout
    \/ AdminCleanup
    \/ \E snapshot \in Snapshots : DeliverSnapshot(snapshot)
    \/ DeliverError

SpecObserver == ObserverInit /\ [][ObserverNext]_vars

InactiveSnapshot(snapshot) ==
    snapshot = Null \/ snapshot.isTracking = Bool(FALSE)

\* C2: in both observer screens, once the snapshot callback has processed
\* a snapshot whose isTracking is false, or an absent snapshot, the
\* bus-location state is null, whatever currentLocation the snapshot
\* carries and whatever was shown before.
C2_InactiveSnapshotClearsLocation ==
    (lastEvent.kind = "snapshot" /\ InactiveSnapshot(lastEvent.snapshot))
        => (busLocation = Null /\ ~isBusTracking)

C2_Witness ==
    /\ screen = "BusLiveTrackingScreen"
    /\ lastEvent.kind = "snapshot"
    /\ lastEvent.snapshot # Null
    /\ lastEvent.snapshot.isTracking = Bool(FALSE)
    /\ lastEvent.snapshot.activeTrackingSession = Str(1)
    /\ lastEvent.snapshot.currentLocation # Null
    /\ IsFinite(lastEvent.snapshot.currentLocation.latitude)
    /\ busLocation = Null

\* C7: once an observer screen's effect cleanup has run, no listener of
\* that screen remains registered and its callbacks are never invoked
\* again, for every interleaving of the initialisation with the cleanup.
C7_NoCallbackAfterCleanup ==
    cleaned => (listeners = 0 /\ ~calledAfterCleanup)

\* the events of MapScreen's subscription: snapshot callback, error
\* callback, effect cleanup
SubscriptionEvent == lastEvent.kind \in {"snapshot", "error", "cleanup"}

\* C27: in MapScreen, after every subscription callback, error callback or
\* cleanup, isBusTracking is true exactly when busLocation is non-null,
\* and a non-null busLocation has finite latitude and longitude, with a
\* finite speed and heading (0 where the document gave none).
C27_TrackingIffLocation ==
    (screen = "MapScreen" /\ SubscriptionEvent)
        => /\ isBusTracking <=> busLocation # Null
           /\ busLocation # Null
                => /\ IsFinite(busLocation.latitude)
                   /\ IsFinite(busLocation.longitude)
                   /\ IsFinite(busLocation.speed)
                   /\ IsFinite(busLocation.heading)

\* a shown location whose document speed was not finite: speed is 0
C27_Witness ==
    /\ screen = "MapScreen"
    /\ lastEvent.kind = "snapshot"
    /\ lastEvent.snapshot # Null
    /\ lastEvent.snapshot.speed = NaN
    /\ isBusTracking
    /\ busLocation # Null
    /\ busLocation.speed = Num(0)
    /\ busLocation.heading = Num(0)

\* a tracking snapshot with coordinates that are not finite hides the bus
C27_WitnessNotFinite ==
    /\ screen = "MapScreen"
    /\ lastEvent.kind = "snapshot"
    /\ lastEvent.snapshot # Null
    /\ lastEvent.snapshot.isTracking = Bool(TRUE)
    /\ lastEvent.snapshot.activeTrackingSession = Str(1)
    /\ lastEvent.snapshot.currentLocation # Null
    /\ ~IsFinite(lastEvent.snapshot.currentLocation.latitude)
    /\ busLocation = Null
    /\ ~isBusTracking

\* C28: for every snapshot, MapScreen and BusLiveTrackingScreen reach the
\* same decision to show or not to show the bus: the mounted screen holds
\* a location after its snapshot callback exactly when the other screen's
\* callback would hold one for that snapshot.
C28_ScreensAgree ==
    lastEvent.kind = "snapshot"
        => ((busLocation # Null)
              <=> (IF screen = "MapScreen"
                   THEN adminOnSnapshot(lastEvent.snapshot) # Null
                   ELSE mapOnSnapshot(lastEvent.snapshot) # Null))

\* C29: in both observer screens, once the error callback of the
\* subscription has run, the bus-location state is null.
C29_ErrorClearsLocation ==
    lastEvent.kind = "error" => busLocation = Null

(***************************************************************************)
(* Tracking pipeline: LocationFilter, SessionController, LocationStore and *)
(* Distributor (locationService)                                           *)
(***************************************************************************)
JITTER_DISTANCE == 20
JITTER_INTERVAL == 4

MaxSessions == 2
MaxTime == 7
MaxInFlight == 2
MaxSubscribes == 2

SampleLatitudes == {Num(0), Num(19), Num(20), NaN}
CaptureIntervals == {3, 4}

\* variant: either condition alone rejects
admitEither(previous, candidate) ==
    IF /\ previous # Null
       /\ \/ haversineDistance(previous, candidate) < JITTER_DISTANCE
          \/ candidate.capturedAt - previous.capturedAt < JITTER_INTERVAL
    THEN "reject" ELSE "accept"

\* variant: a short movement alone rejects, whatever the interval
admitDistanceOnly(previous, candidate) ==
    IF /\ previous # Null
       /\ haversineDistance(previous, candidate) < JITTER_DISTANCE
    THEN "reject" ELSE "accept"

\* LocationFilter.admit(previous, candidate)
admit(previous, candidate) ==
    IF /\ previous # Null
       /\ haversineDistance(previous, candidate) < JITTER_DISTANCE
       /\ candidate.capturedAt - previous.capturedAt < JITTER_INTERVAL
    THEN "reject" ELSE "accept"

Op(name, sample, decision, raised) ==
    [op |-> name, sample |-> sample, previous |-> store.sample, decision |-> decision,
     sessionId |-> session.sessionId, wasActive |-> session.isActive, before |-> store,
     raised |-> raised]

\* LocationStore write: the record is replaced and every current
\* subscriber has a change to be told of
WriteRecord(record) ==
    /\ store' = record
    /\ pending' = [s \in Subscribers |-> subscribed[s] /\ (pending[s] \/ record # store)]

\* SessionController.startTracking: a fresh sessionId, Active, and the
\* "tracking started" marker in the store
startTracking ==
    /\ session.started < MaxSessions
    /\ session' = [sessionId |-> session.started + 1, isActive |-> TRUE,
                   started |-> session.started + 1]
    /\ WriteRecord([sample |-> Null, sessionId |-> session.started + 1, isActive |-> TRUE])
    /\ lastOp' = Op("startTracking", Null, "none", FALSE)
    /\ UNCHANGED <<now, inFlight, subscribed, view, subscribeCount>>
    /\ UNCHANGED <<progressVars, observerVars, relayVars, backendVars, deviceVars>>

\* variant: the session ends but the last sample stays in the record
stopTrackingFrozen ==
    /\ IF session.isActive
       THEN /\ session' = [session EXCEPT !.isActive = FALSE]
            /\ WriteRecord([store EXCEPT !.isActive = FALSE])
       ELSE UNCHANGED <<session, store, pending>>
    /\ lastOp' = Op("stopTracking", Null, "none", FALSE)
    /\ UNCHANGED <<now, inFlight, subscribed, view, subscribeCount>>
    /\ UNCHANGED <<progressVars, observerVars, relayVars, backendVars, deviceVars>>

\* SessionController.stopTracking: a no-op when idle, else the session
\* ends and the visible sample is cleared
stopTracking ==
    /\ IF session.isActive
       THEN /\ session' = [session EXCEPT !.isActive = FALSE]
            /\ WriteRecord([sample |-> Null, sessionId |-> store.sessionId,
                            isActive |-> FALSE])
       ELSE UNCHANGED <<session, store, pending>>
    /\ lastOp' = Op("stopTracking", Null, "none", FALSE)
    /\ UNCHANGED <<now, inFlight, subscribed, view, subscribeCount>>
    /\ UNCHANGED <<progressVars, observerVars, relayVars, backendVars, deviceVars>>

\* the driver's device captures a raw sample under the session it runs in;
\* the sample reaches the controller later
Capture(latitude, interval) ==
    /\ session.isActive
    /\ now + interval <= MaxTime
    /\ Cardinality(inFlight) < MaxInFlight
    /\ now' = now + interval
    /\ inFlight' = inFlight \cup {[latitude |-> latitude, longitude |-> Num(0),
                                   capturedAt |-> now + interval,
                                   sessionId |-> session.sessionId]}
    /\ lastOp' = Op("capture", Null, "none", FALSE)
    /\ UNCHANGED <<session, store, subscribed, pending, view, subscribeCount>>
    /\ UNCHANGED <<progressVars, observerVars, relayVars, backendVars, deviceVars>>

\* variant: the sample's session tag is not compared
ingestDecisionUntagged(rawSample) ==
    IF ~session.isActive THEN "idle"
    ELSE IF ~IsFinite(rawSample.latitude) \/ ~IsFinite(rawSample.longitude) THEN "malformed"
    ELSE admit(store.sample, rawSample)

\* the decision of SessionController.ingest on a raw sample
ingestDecision(rawSample) ==
    IF ~session.isActive THEN "idle"
    ELSE IF rawSample.sessionId # session.sessionId THEN "stale"
    ELSE IF ~IsFinite(rawSample.latitude) \/ ~IsFinite(rawSample.longitude) THEN "malformed"
    ELSE admit(store.sample, rawSample)

\* SessionController.ingest(rawSample)
ingest(rawSample) ==
    /\ rawSample \in inFlight
    /\ inFlight' = inFlight \ {rawSample}
    /\ IF ingestDecision(rawSample) = "accept"
       THEN WriteRecord([store EXCEPT !.sample = rawSample])
       ELSE UNCHANGED <<store, pending>>
    /\ lastOp' = Op("ingest", rawSample, ingestDecision(rawSample), FALSE)
    /\ UNCHANGED <<session, now, subscribed, view, subscribeCount>>
    /\ UNCHANGED <<progressVars, observerVars, relayVars, backendVars, deviceVars>>

\* Distributor: register; the current record is delivered at once
subscribe(s) ==
    /\ ~subscribed[s]
    /\ subscribeCount < MaxSubscribes
    /\ subscribeCount' = subscribeCount + 1
    /\ subscribed' = [subscribed EXCEPT ![s] = TRUE]
    /\ view' = [view EXCEPT ![s] = store]
    /\ pending' = [pending EXCEPT ![s] = FALSE]
    /\ lastOp' = Op("subscribe", Null, "none", FALSE)
    /\ UNCHANGED <<session, store, now, inFlight>>
    /\ UNCHANGED <<progressVars, observerVars, relayVars, backendVars, deviceVars>>

\* Distributor: unregister; nothing more is delivered
unsubscribe(s) ==
    /\ subscribed[s]
    /\ subscribed' = [subscribed EXCEPT ![s] = FALSE]
    /\ pending' = [pending EXCEPT ![s] = FALSE]
    /\ lastOp' = Op("unsubscribe", Null, "none", FALSE)
    /\ UNCHANGED <<session, store, now, inFlight, view, subscribeCount>>
    /\ UNCHANGED <<progressVars, observerVars, relayVars, backendVars, deviceVars>>

\* variant: the outstanding change is dropped instead of delivered
deliverLossy(s) ==
    /\ subscribed[s] /\ pending[s]
    /\ pending' = [pending EXCEPT ![s] = FALSE]
    /\ lastOp' = Op("deliver", Null, "none", FALSE)
    /\ UNCHANGED <<session, store, now, inFlight, subscribed, view, subscribeCount>>
    /\ UNCHANGED <<progressVars, observerVars, relayVars, backendVars, deviceVars>>

\* Distributor: a subscriber with a change outstanding is handed the
\* latest record (intermediate records are skipped)
deliver(s) ==
    /\ subscribed[s] /\ pending[s]
    /\ view' = [view EXCEPT ![s] = store]
    /\ pending' = [pending EXCEPT ![s] = FALSE]
    /\ lastOp' = Op("deliver", Null, "none", FALSE)
    /\ UNCHANGED <<session, store, now, inFlight, subscribed, subscribeCount>>
    /\ UNCHANGED <<progressVars, observerVars, relayVars, backendVars, deviceVars>>

TrackingInit ==
    /\ TrackingIdle
    /\ BackendIdle
    /\ DeviceIdle
    /\ routeStops = << >>
    /\ busLocation = Null
    /\ isBusTracking = FALSE
    /\ loading = FALSE
    /\ progress = routeProgress(routeStops, busLocation, isBusTracking)
    /\ ObserverIdle
    /\ RelayIdle

TrackingNext ==
    \/ startTracking
    \/ stopTracking
    \/ \E latitude \in SampleLatitudes, interval \in CaptureIntervals :
          Capture(latitude, interval)
    \/ \E rawSample \in inFlight : ingest(rawSample)

SpecTracking == TrackingInit /\ [][TrackingNext]_vars

DistributorNext ==
    \/ startTracking
    \/ stopTracking
    \/ \E latitude \in {Num(0), Num(20)} : Capture(latitude, 4)
    \/ \E rawSample \in inFlight : ingest(rawSample)
    \/ \E s \in Subscribers : subscribe(s)
    \/ \E s \in Subscribers : unsubscribe(s)
    \/ \E s \in Subscribers : deliver(s)

\* delivery to a subscriber with a change outstanding is not postponed forever
SpecDistributor ==
    /\ TrackingInit
    /\ [][DistributorNext]_vars
    /\ \A s \in Subscribers : WF_vars(deliver(s))

Filtered == lastOp.op = "ingest" /\ lastOp.decision \in {"accept", "reject"}

C3_WitnessFarAccepted ==
    /\ Filtered
    /\ lastOp.decision = "accept"
    /\ lastOp.previous # Null
    /\ Abs(lastOp.sample.latitude.n - lastOp.previous.latitude.n) = 20
    /\ lastOp.sample.capturedAt - lastOp.previous.capturedAt = 3

C3_WitnessLateAccepted ==
    /\ Filtered
    /\ lastOp.decision = "accept"
    /\ lastOp.previous # Null
    /\ Abs(lastOp.sample.latitude.n - lastOp.previous.latitude.n) = 19
    /\ lastOp.sample.capturedAt - lastOp.previous.capturedAt = 4

\* an update filtered against a sample written before it
Throttled == Filtered /\ lastOp.previous # Null
Movement == Abs(lastOp.sample.latitude.n - lastOp.previous.latitude.n)
Interval == lastOp.sample.capturedAt - lastOp.previous.capturedAt
Skipped == store = lastOp.before

C23_WitnessSlowWritten ==
    /\ Throttled
    /\ Movement = 19 /\ Interval = 4
    /\ store.sample = lastOp.sample

\* a long movement after a short interval is written
C23_WitnessFastWritten ==
    /\ Throttled
    /\ Movement = 20 /\ Interval = 3
    /\ store.sample = lastOp.sample

\* C5: ingest never stores a sample tagged with another sessionId than the
\* controller's current one: such a sample leaves the record unchanged,
\* and a stored sample always carries the record's sessionId.
C5_StaleSampleDropped ==
    /\ (lastOp.op = "ingest" /\ lastOp.sample.sessionId # lastOp.sessionId)
          => store = lastOp.before
    /\ store.sample # Null => store.sample.sessionId = session.sessionId

C5_Witness ==
    /\ lastOp.op = "ingest"
    /\ lastOp.wasActive
    /\ lastOp.sample.sessionId # lastOp.sessionId
    /\ IsFinite(lastOp.sample.latitude)
    /\ store = lastOp.before

\* C8: after stopTracking the record is inactive and holds no sample,
\* whether the session was Active or Idle; on an Idle vehicle the call
\* raises nothing and changes nothing.
C8_StopTracking ==
    lastOp.op = "stopTracking" =>
        /\ ~store.isActive
        /\ ~session.isActive
        /\ store.sample = Null
        /\ ~lastOp.raised
        /\ ~lastOp.wasActive => store = lastOp.before

C8_Witness ==
    /\ lastOp.op = "stopTracking"
    /\ lastOp.wasActive
    /\ lastOp.before.sample # Null
    /\ store.sample = Null

C8_WitnessIdle ==
    /\ lastOp.op = "stopTracking"
    /\ ~lastOp.wasActive
    /\ lastOp.before.sessionId # 0

\* C9: under fair delivery every subscriber that stays subscribed ends up
\* with the latest record: from some point on its view equals the record.
C9_LatestValueObserved ==
    \A s \in Subscribers : <>[](subscribed[s] => view[s] = store)

C9_Witness ==
    /\ subscribed["s1"]
    /\ ~pending["s1"]
    /\ view["s1"] = store
    /\ store.sample # Null
    /\ lastOp.op = "deliver"

(***************************************************************************)
(* Notification server: recipient directory, relay and token pruning       *)
(***************************************************************************)
TARGET_ROLES == {"student", "coadmin", "incharge"}

\* String.prototype.toLowerCase on the role names of the model
toLowerCase(role) == IF role = "Student" THEN "student" ELSE role

\* normalizeBusNumber on the bus numbers of the model: upper case, runs of
\* hyphens collapsed, null taken for the empty string
normalizeBusNumber(busNumber) ==
    CASE busNumber \in {"B-12", "b-12", "B--12"} -> "B-12"
      [] busNumber \in {"B-7", "b-7"} -> "B-7"
      [] OTHER -> ""

\* fcmTokens.filter(Boolean) when fcmTokens is an array, else []
filterTokens(fcmTokens) ==
    IF fcmTokens.isArray THEN SelectSeq(fcmTokens.items, LAMBDA t : t # "") ELSE << >>

\* where('busNumber', '==', busNumber).get(): the matching documents
busDocs(busNumber) ==
    SelectSeq(UidOrder, LAMBDA uid : users[uid].exists /\ users[uid].busNumber = busNumber)

\* where('role', '==', normalizedRole).get(): the matching documents
roleDocs(normalizedRole) ==
    SelectSeq(UidOrder, LAMBDA uid : users[uid].exists /\ users[uid].role = normalizedRole)

\* variant: the role of the matching documents is not looked at
getRecipientsByBusAnyRole(busNumber) ==
    IF busNumber = "" THEN << >>
    ELSE LET docs == busDocs(busNumber)
         IN [i \in 1..Len(docs) |->
               [uid |-> docs[i], role |-> toLowerCase(users[docs[i]].role),
                busNumber |-> users[docs[i]].busNumber,
                tokens |-> filterTokens(users[docs[i]].fcmTokens)]]

getRecipientsByBus(busNumber) ==
    IF busNumber = "" THEN << >>
    ELSE LET docs == busDocs(busNumber)
             targeted == SelectSeq(docs, LAMBDA uid : toLowerCase(users[uid].role) \in TARGET_ROLES)
         IN [i \in 1..Len(targeted) |->
               [uid |-> targeted[i], role |-> toLowerCase(users[targeted[i]].role),
                busNumber |-> users[targeted[i]].busNumber,
                tokens |-> filterTokens(users[targeted[i]].fcmTokens)]]

getRecipientsByRole(role) ==
    IF role = "" THEN << >>
    ELSE LET docs == roleDocs(toLowerCase(role))
         IN [i \in 1..Len(docs) |->
               [uid |-> docs[i], role |-> toLowerCase(role), busNumber |-> "",
                tokens |-> filterTokens(users[docs[i]].fcmTokens)]]

getTokensForUser(uid) ==
    IF uid = "" THEN << >>
    ELSE IF uid \notin Uids \/ ~users[uid].exists THEN << >>
    ELSE filterTokens(users[uid].fcmTokens)

\* the outcome of a directory read (get()): "ok", or "error" on an I/O failure
Lookups == {"ok", "error"}

\* variant: a failed read is caught and answered with an empty list
queryRaisesSwallowed(lookup) == FALSE

\* `await ...get()` outside any try block: a rejected read rejects the call
queryRaises(lookup) == lookup = "error"

Call(op, argument, lookup, raised, value, tokens) ==
    [op |-> op, argument |-> argument, token |-> "", lookup |-> lookup,
     raised |-> raised, value |-> value, tokens |-> tokens]

\* a call that only reads the directory
ReadOnlyCall(call) ==
    /\ lastCall' = call
    /\ lastRelay' = NoRelay
    /\ removeLog' = << >>
    /\ UNCHANGED <<users, cachedToken, tokenRefreshUnsubscribe>>
    /\ UNCHANGED <<progressVars, observerVars, trackingVars, backendVars, deviceVars>>

\* RecipientResolver.resolveByVehicle: a call of getRecipientsByBus(busNumber)
resolveByVehicle(busNumber, lookup) ==
    ReadOnlyCall(
        IF busNumber = "" THEN Call("getRecipientsByBus", busNumber, "ok", FALSE, << >>, << >>)
        ELSE IF queryRaises(lookup)
             THEN Call("getRecipientsByBus", busNumber, lookup, TRUE, << >>, << >>)
        ELSE IF lookup = "error"
             THEN Call("getRecipientsByBus", busNumber, lookup, FALSE, << >>, << >>)
        ELSE Call("getRecipientsByBus", busNumber, lookup, FALSE,
                  getRecipientsByBus(busNumber), << >>))

\* RecipientResolver.resolveByRole: a call of getRecipientsByRole(role)
resolveByRole(role, lookup) ==
    ReadOnlyCall(
        IF role = "" THEN Call("getRecipientsByRole", role, "ok", FALSE, << >>, << >>)
        ELSE IF queryRaises(lookup)
             THEN Call("getRecipientsByRole", role, lookup, TRUE, << >>, << >>)
        ELSE IF lookup = "error"
             THEN Call("getRecipientsByRole", role, lookup, FALSE, << >>, << >>)
        ELSE Call("getRecipientsByRole", role, lookup, FALSE,
                  getRecipientsByRole(role), << >>))

\* a call of getTokensForUser(uid)
resolveTokensForUser(uid, lookup) ==
    ReadOnlyCall(
        IF uid = "" THEN Call("getTokensForUser", uid, "ok", FALSE, << >>, << >>)
        ELSE IF queryRaises(lookup)
             THEN Call("getTokensForUser", uid, lookup, TRUE, << >>, << >>)
        ELSE IF lookup = "error"
             THEN Call("getTokensForUser", uid, lookup, FALSE, << >>, << >>)
        ELSE Call("getTokensForUser", uid, lookup, FALSE, << >>, getTokensForUser(uid)))

Range(seq) == {seq[i] : i \in 1..Len(seq)}

\* FieldValue.arrayRemove(...tokens) applied to the stored field
arrayRemove(fcmTokens, tokens) ==
    [isArray |-> TRUE,
     items |-> IF fcmTokens.isArray
               THEN SelectSeq(fcmTokens.items, LAMBDA t : t \notin Range(tokens))
               ELSE << >>]

\* variant: the tokens are added (arrayUnion) instead of removed
removeTokensResultUnion(directory, uid, tokens) ==
    IF uid = "" \/ Len(tokens) = 0 THEN directory
    ELSE IF uid \notin Uids \/ ~directory[uid].exists THEN directory
    ELSE [directory EXCEPT ![uid].fcmTokens =
             [isArray |-> TRUE,
              items |-> (IF directory[uid].fcmTokens.isArray
                         THEN directory[uid].fcmTokens.items ELSE << >>) \o tokens]]

\* the directory after removeTokens(uid, tokens): docRef.update fails on a
\* missing document, the failure is caught and logged
removeTokensResult(directory, uid, tokens) ==
    IF uid = "" \/ Len(tokens) = 0 THEN directory
    ELSE IF uid \notin Uids \/ ~directory[uid].exists THEN directory
    ELSE [directory EXCEPT ![uid].fcmTokens = arrayRemove(directory[uid].fcmTokens, tokens)]

\* docRef.update rejects (NOT_FOUND) when the document does not exist
docUpdateFails(directory, uid) == uid \notin Uids \/ ~directory[uid].exists

\* the try/catch around docRef.update
updateErrorCaught == TRUE

\* whether removeTokens(uid, tokens) rejects
removeTokensRaises(directory, uid, tokens) ==
    /\ uid # "" /\ Len(tokens) # 0
    /\ docUpdateFails(directory, uid)
    /\ ~updateErrorCaught

RemoveCall(uid, tokens) ==
    [uid |-> uid, tokens |-> tokens, before |-> users,
     after |-> removeTokensResult(users, uid, tokens),
     raised |-> removeTokensRaises(users, uid, tokens)]

\* TokenPruner: removeTokens(uid, tokens)
removeTokens(uid, tokens) ==
    /\ users' = removeTokensResult(users, uid, tokens)
    /\ removeLog' = IF Len(removeLog) > 0 /\ removeLog[Len(removeLog)].uid = uid
                       /\ removeLog[Len(removeLog)].tokens = tokens /\ Len(removeLog) < 2
                    THEN Append(removeLog, RemoveCall(uid, tokens))
                    ELSE << RemoveCall(uid, tokens) >>
    /\ lastRelay' = NoRelay
    /\ lastCall' = NoCall
    /\ UNCHANGED <<cachedToken, tokenRefreshUnsubscribe>>
    /\ UNCHANGED <<progressVars, observerVars, trackingVars, backendVars, deviceVars>>

\* recipients of a trip-start event: the bus audience and management
relayRecipients(busNumber) ==
    getRecipientsByBus(busNumber) \o getRecipientsByRole("management")

RecipientTokens(recipients) ==
    UNION {Range(recipients[i].tokens) : i \in 1..Len(recipients)}

\* variant: nothing is excluded from the recipients' tokens
relayTargetsAll(busNumber, initiatedBy, excludeToken) ==
    RecipientTokens(relayRecipients(busNumber))

\* the multicast target set: the recipients' tokens without the
\* initiator's tokens and without excludeToken
relayTargets(busNumber, initiatedBy, excludeToken) ==
    {t \in RecipientTokens(relayRecipients(busNumber)) :
        /\ t \notin Range(getTokensForUser(initiatedBy))
        /\ t # excludeToken}

\* variant: every token that was not delivered counts, a transient failure too
failedTokensOf(recipient, targets, results) ==
    SelectSeq(recipient.tokens, LAMBDA t : t \in targets /\ results[t] # "delivered")

\* the tokens of one recipient that the gateway reported permanently invalid
invalidTokensOf(recipient, targets, results) ==
    SelectSeq(recipient.tokens, LAMBDA t : t \in targets /\ results[t] = "invalid")

\* one removeTokens call per uid with invalid tokens, in recipient order
RECURSIVE pruneCallsOf(_, _, _, _)
pruneCallsOf(recipients, targets, results, done) ==
    IF Len(recipients) = 0 THEN << >>
    ELSE LET recipient == Head(recipients)
             invalid == invalidTokensOf(recipient, targets, results)
         IN IF recipient.uid \in done \/ Len(invalid) = 0
            THEN pruneCallsOf(Tail(recipients), targets, results, done)
            ELSE << [uid |-> recipient.uid, tokens |-> invalid] >>
                 \o pruneCallsOf(Tail(recipients), targets, results,
                                 done \cup {recipient.uid})

RECURSIVE applyPruneCalls(_, _)
applyPruneCalls(directory, calls) ==
    IF Len(calls) = 0 THEN directory
    ELSE applyPruneCalls(removeTokensResult(directory, Head(calls).uid, Head(calls).tokens),
                         Tail(calls))

GatewayResults(targets) == [targets -> {"delivered", "transient", "invalid"}]

\* NotificationRelay.relay(event): resolve, exclude, multicast, prune
relay(busNumber, initiatedBy, excludeToken, results) ==
    LET recipients == relayRecipients(busNumber)
        targets == relayTargets(busNumber, initiatedBy, excludeToken)
        calls == pruneCallsOf(recipients, targets, results, {})
    IN /\ results \in GatewayResults(targets)
       /\ users' = applyPruneCalls(users, calls)
       /\ lastRelay' = [busNumber |-> busNumber, initiatedBy |-> initiatedBy,
                        excludeToken |-> excludeToken, recipients |-> recipients,
                        targets |-> targets,
                        results |-> {<<t, results[t]>> : t \in targets},
                        pruneCalls |-> calls]
       /\ removeLog' = << >>
       /\ lastCall' = NoCall
       /\ UNCHANGED <<cachedToken, tokenRefreshUnsubscribe>>
       /\ UNCHANGED <<progressVars, observerVars, trackingVars, backendVars, deviceVars>>

InitiatorDocument ==
    [exists : {TRUE}, role : {"coadmin", "driver"}, busNumber : {"B-12"},
     fcmTokens : {[isArray |-> TRUE, items |-> <<"tk1">>],
                  [isArray |-> TRUE, items |-> <<"tk1", "tk2">>]}]

OtherDocument ==
    [exists : {TRUE}, role : {"student", "Student", "management", "driver"},
     busNumber : {"B-12", "B-7"},
     fcmTokens : {[isArray |-> FALSE, items |-> << >>],
                  [isArray |-> TRUE, items |-> <<"tk2">>],
                  [isArray |-> TRUE, items |-> <<"tk1">>],
                  [isArray |-> TRUE, items |-> <<"", "tk2", " ">>]}] \cup {NoDocument}

RelayInit ==
    /\ \E initiator \in InitiatorDocument, other \in OtherDocument :
          users = [uid \in Uids |-> IF uid = "u1" THEN initiator ELSE other]
    /\ lastRelay = NoRelay
    /\ removeLog = << >>
    /\ lastCall = NoCall
    /\ ClientIdle
    /\ routeStops = << >>
    /\ busLocation = Null
    /\ isBusTracking = FALSE
    /\ loading = FALSE
    /\ progress = routeProgress(routeStops, busLocation, isBusTracking)
    /\ ObserverIdle
    /\ TrackingIdle
    /\ BackendIdle
    /\ DeviceIdle

RemoveArguments == {<< >>, <<"tk1">>, <<"tk2">>, <<"tk1", "tk2">>}

BusNumbers == {"B-12", "B-7", ""}
RoleArguments == {"management", "Student", ""}

RelayNext ==
    \/ \E uid \in Uids \cup {"", "u9"}, tokens \in RemoveArguments : removeTokens(uid, tokens)
    \/ \E busNumber \in BusNumbers, lookup \in Lookups : resolveByVehicle(busNumber, lookup)
    \/ \E role \in RoleArguments, lookup \in Lookups : resolveByRole(role, lookup)
    \/ \E uid \in Uids \cup {"", "u9"}, lookup \in Lookups : resolveTokensForUser(uid, lookup)
    \/ \E busNumber \in {"B-12"}, initiatedBy \in Uids \cup {""}, excludeToken \in {"", "tk2"} :
          \E results \in GatewayResults(relayTargets(busNumber, initiatedBy, excludeToken)) :
              relay(busNumber, initiatedBy, excludeToken, results)

SpecRelay == RelayInit /\ [][RelayNext]_vars

Relayed == lastRelay.busNumber # ""

\* C4: for every trip-start relay call, no token of the initiator uid and
\* no token equal to excludeToken is in the multicast target set, also
\* when the initiator is matched by the recipient queries.
C4_RecipientExclusion ==
    Relayed =>
        \A t \in lastRelay.targets :
            /\ t # lastRelay.excludeToken
            /\ lastRelay.initiatedBy \in Uids =>
                  t \notin Range(users[lastRelay.initiatedBy].fcmTokens.items)

C4_Witness ==
    /\ Relayed
    /\ lastRelay.initiatedBy = "u1"
    /\ users["u1"].role = "coadmin"
    /\ users["u1"].busNumber = lastRelay.busNumber
    /\ "tk1" \in Range(users["u1"].fcmTokens.items)
    /\ lastRelay.targets # {}
    /\ "tk1" \notin lastRelay.targets

C4_WitnessSharedToken ==
    /\ Relayed
    /\ lastRelay.initiatedBy = "u1"
    /\ users["u2"].exists /\ users["u2"].role = "student"
    /\ users["u2"].busNumber = lastRelay.busNumber
    /\ "tk1" \in Range(users["u2"].fcmTokens.items)
    /\ "tk1" \notin lastRelay.targets

\* removeTokens(uid, [t]) has just been called twice in sequence
RemovedTwice ==
    /\ Len(removeLog) = 2
    /\ Len(removeLog[1].tokens) = 1

C6_WitnessMissingDocument ==
    /\ RemovedTwice
    /\ removeLog[1].uid = "u2"
    /\ ~removeLog[1].before["u2"].exists

(***************************************************************************)
(* The push notification service of the client: token registration,        *)
(* token refresh and logout write the same users/{uid} documents           *)
(***************************************************************************)
\* the signed-in user of the device; role and busNumber as the session has them
DeviceUsers ==
    { [uid |-> "u2", role |-> "student", busNumber |-> "B--12"],
      [uid |-> "u2", role |-> "", busNumber |-> ""] }

\* what messaging().getToken() and onTokenRefresh hand out; "" is no token
DeviceTokens == {"tk2", "tk3"}

\* the outcome of the first write of persistTokenForUser
Writes == {"ok", "error"}

\* setDoc(baseDoc, {role, busNumber, updatedAt}, {merge: true})
mergeUserRecord(document, user) ==
    [exists |-> TRUE,
     role |-> IF user.role # "" THEN user.role ELSE "student",
     busNumber |-> normalizeBusNumber(user.busNumber),
     fcmTokens |-> document.fcmTokens]

\* arrayUnion(token) applied to the stored field
arrayUnion(fcmTokens, token) ==
    [isArray |-> TRUE,
     items |-> IF ~fcmTokens.isArray THEN <<token>>
               ELSE IF token \in Range(fcmTokens.items) THEN fcmTokens.items
               ELSE Append(fcmTokens.items, token)]

\* variant: the token replaces the stored tokens
persistTokenResultOverwrite(directory, identifier, token, user) ==
    [directory EXCEPT ![identifier] =
        [mergeUserRecord(directory[identifier], user) EXCEPT
            !.fcmTokens = [isArray |-> TRUE, items |-> <<token>>]]]

\* the directory after persistTokenForUser({identifier, token, user})
persistTokenResult(directory, identifier, token, user) ==
    [directory EXCEPT ![identifier] =
        [mergeUserRecord(directory[identifier], user) EXCEPT
            !.fcmTokens = arrayUnion(directory[identifier].fcmTokens, token)]]

\* the directory after the two writes of removePushTokenForUser: a missing
\* document is created by the setDoc fallbacks
removePushTokenResult(directory, identifier, token) ==
    [directory EXCEPT ![identifier] =
        [exists |-> TRUE, role |-> directory[identifier].role,
         busNumber |-> directory[identifier].busNumber,
         fcmTokens |-> IF token # "" THEN arrayRemove(directory[identifier].fcmTokens, <<token>>)
                       ELSE directory[identifier].fcmTokens]]

ClientCall(op, uid, token, raised) ==
    [Call(op, uid, "ok", raised, << >>, << >>) EXCEPT !.token = token]

Listener(user) == [identifier |-> user.uid, user |-> user]

\* registerTokenRefreshListener(user): nothing when a listener is held
registerTokenRefreshListener(user) ==
    IF tokenRefreshUnsubscribe # Null
    THEN UNCHANGED <<tokenRefreshUnsubscribe, refreshListeners>>
    ELSE /\ tokenRefreshUnsubscribe' = Listener(user)
         /\ refreshListeners' = Append(refreshListeners, Listener(user))

\* registerPushTokenAsync(user), run without interruption
registerPushTokenAsync(user, permissionGranted, deviceToken, write) ==
    /\ IF user # Null /\ permissionGranted /\ deviceToken # "" /\ write = "ok"
       THEN /\ users' = persistTokenResult(users, user.uid, deviceToken, user)
            /\ cachedToken' = deviceToken
            /\ lastFcmToken' = [lastFcmToken EXCEPT ![user.uid] = deviceToken]
            /\ registerTokenRefreshListener(user)
            /\ lastCall' = ClientCall("registerPushTokenAsync", user.uid, deviceToken, FALSE)
       ELSE /\ UNCHANGED <<users, cachedToken, tokenRefreshUnsubscribe, lastFcmToken,
                           refreshListeners>>
            /\ lastCall' = ClientCall("registerPushTokenAsync",
                                      IF user # Null THEN user.uid ELSE "", "", FALSE)
    /\ lastRelay' = NoRelay
    /\ removeLog' = << >>
    /\ UNCHANGED <<hook, sync, refresh, removal>>
    /\ UNCHANGED <<progressVars, observerVars, trackingVars, backendVars>>

\* the onTokenRefresh listener of registerTokenRefreshListener
onTokenRefresh(newToken, write) ==
    /\ tokenRefreshUnsubscribe # Null
    /\ IF write = "ok"
       THEN /\ users' = persistTokenResult(users, tokenRefreshUnsubscribe.identifier, newToken,
                                           tokenRefreshUnsubscribe.user)
            /\ cachedToken' = newToken
            /\ lastFcmToken' = [lastFcmToken EXCEPT
                                  ![tokenRefreshUnsubscribe.identifier] = newToken]
            /\ lastCall' = ClientCall("onTokenRefresh", tokenRefreshUnsubscribe.identifier,
                                      newToken, FALSE)
       ELSE /\ UNCHANGED <<users, cachedToken, lastFcmToken>>
            /\ lastCall' = ClientCall("onTokenRefresh", tokenRefreshUnsubscribe.identifier,
                                      "", FALSE)
    /\ lastRelay' = NoRelay
    /\ removeLog' = << >>
    /\ UNCHANGED <<tokenRefreshUnsubscribe, refreshListeners, hook, sync, refresh, removal>>
    /\ UNCHANGED <<progressVars, observerVars, trackingVars, backendVars>>

\* removePushTokenForUser(user), on logout; currentToken is what getToken()
\* answers when no token is cached
removePushTokenForUser(user, currentToken) ==
    LET token == IF cachedToken # "" THEN cachedToken ELSE currentToken
    IN /\ IF user # Null
          THEN /\ users' = removePushTokenResult(users, user.uid, token)
               /\ lastFcmToken' = [lastFcmToken EXCEPT ![user.uid] = ""]
               /\ lastCall' = ClientCall("removePushTokenForUser", user.uid, token, FALSE)
          ELSE /\ UNCHANGED <<users, lastFcmToken>>
               /\ lastCall' = ClientCall("removePushTokenForUser", "", "", FALSE)
       /\ lastRelay' = NoRelay
       /\ removeLog' = << >>
       /\ UNCHANGED <<cachedToken, tokenRefreshUnsubscribe, refreshListeners, hook, sync,
                      refresh, removal>>
       /\ UNCHANGED <<progressVars, observerVars, trackingVars, backendVars>>

\* the body of cleanupNotificationListeners(): a held handle removes
\* its listener
unsubscribeTokenRefresh ==
    /\ tokenRefreshUnsubscribe' = Null
    /\ refreshListeners' = IF tokenRefreshUnsubscribe # Null
                           THEN SubSeq(refreshListeners, 1, Len(refreshListeners) - 1)
                           ELSE refreshListeners

\* cleanupNotificationListeners()
cleanupNotificationListeners ==
    /\ unsubscribeTokenRefresh
    /\ lastCall' = ClientCall("cleanupNotificationListeners", "", "", FALSE)
    /\ lastRelay' = NoRelay
    /\ removeLog' = << >>
    /\ UNCHANGED <<users, cachedToken, lastFcmToken, hook, sync, refresh, removal>>
    /\ UNCHANGED <<progressVars, observerVars, trackingVars, backendVars>>

\* one bus: its coadmin u1 is in the directory, the student u2 may be
DirectoryInit ==
    /\ \E other \in {NoDocument,
                     [exists |-> TRUE, role |-> "student", busNumber |-> "B-12",
                      fcmTokens |-> [isArray |-> TRUE, items |-> <<"tk1", "tk2">>]]} :
          users = [uid \in Uids |->
                     IF uid = "u1"
                     THEN [exists |-> TRUE, role |-> "coadmin", busNumber |-> "B-12",
                           fcmTokens |-> [isArray |-> TRUE, items |-> <<"tk1">>]]
                     ELSE other]
    /\ lastRelay = NoRelay
    /\ removeLog = << >>
    /\ lastCall = NoCall
    /\ ClientIdle
    /\ routeStops = << >>
    /\ busLocation = Null
    /\ isBusTracking = FALSE
    /\ loading = FALSE
    /\ progress = routeProgress(routeStops, busLocation, isBusTracking)
    /\ ObserverIdle
    /\ TrackingIdle
    /\ BackendIdle
    /\ DeviceIdle

DirectoryNext ==
    \/ \E user \in DeviceUsers \cup {Null}, permissionGranted \in BOOLEAN,
          deviceToken \in DeviceTokens \cup {""}, write \in Writes :
          registerPushTokenAsync(user, permissionGranted, deviceToken, write)
    \/ \E newToken \in DeviceTokens, write \in Writes : onTokenRefresh(newToken, write)
    \/ \E user \in DeviceUsers \cup {Null}, currentToken \in DeviceTokens \cup {""} :
          removePushTokenForUser(user, currentToken)
    \/ cleanupNotificationListeners
    \/ \E uid \in Uids, tokens \in {<<"tk1">>, <<"tk2", "tk3">>} : removeTokens(uid, tokens)
    \/ \E busNumber \in {"B-12"}, lookup \in Lookups : resolveByVehicle(busNumber, lookup)
    \/ \E role \in {"student"}, lookup \in Lookups : resolveByRole(role, lookup)
    \/ \E uid \in Uids, lookup \in Lookups : resolveTokensForUser(uid, lookup)
    \/ \E busNumber \in {"B-12"}, initiatedBy \in {"u1"}, excludeToken \in {""} :
          \E results \in GatewayResults(relayTargets(busNumber, initiatedBy, excludeToken)) :
              relay(busNumber, initiatedBy, excludeToken, results)

SpecDirectory == DirectoryInit /\ [][DirectoryNext]_vars

\* the token set of a stored document
TokenSet(document) == Range(document.fcmTokens.items)

\* C20 as stated: a user's fcmTokens changes only in a step of removeTokens,
\* called directly or by the relay for its pruning.
C20_OnlyPrunerMutates ==
    [][\A uid \in Uids :
          users'[uid].fcmTokens # users[uid].fcmTokens =>
              \/ removeLog' # << >>
              \/ lastRelay'.pruneCalls # << >>]_vars

\* C20, amended: a user's fcmTokens changes only in a step of removeTokens
\* for that uid (called directly or by the relay for its pruning), which
\* adds no token, in a step of the client's token registration or token
\* refresh for that uid, which adds the device token and keeps the others,
\* or in a step of the client's logout for that uid, which removes the
\* device token and keeps the others; recipient resolution and a relay call
\* that prunes nothing leave it unchanged.
C20_TokenSetWriters ==
    [][\A uid \in Uids :
          users'[uid].fcmTokens # users[uid].fcmTokens =>
              \/ /\ removeLog' # << >>
                 /\ removeLog'[Len(removeLog')].uid = uid
                 /\ TokenSet(users'[uid]) \subseteq TokenSet(users[uid])
              \/ /\ \E i \in 1..Len(lastRelay'.pruneCalls) : lastRelay'.pruneCalls[i].uid = uid
                 /\ TokenSet(users'[uid]) \subseteq TokenSet(users[uid])
              \/ /\ lastCall'.op \in {"registerPushTokenAsync", "onTokenRefresh"}
                 /\ lastCall'.argument = uid
                 /\ TokenSet(users'[uid]) = TokenSet(users[uid]) \cup {lastCall'.token}
              \/ /\ lastCall'.op = "removePushTokenForUser"
                 /\ lastCall'.argument = uid
                 /\ TokenSet(users'[uid]) = TokenSet(users[uid]) \ {lastCall'.token}]_vars

\* the device of u2 has registered the token tk3 next to the stored ones
C20_Witness ==
    /\ lastCall.op = "registerPushTokenAsync"
    /\ lastCall.argument = "u2"
    /\ lastCall.token = "tk3"
    /\ cachedToken = "tk3"
    /\ users["u2"].fcmTokens.items = <<"tk1", "tk2", "tk3">>

\* the device of u2 has logged out: its token is gone, the others are kept
C20_WitnessLogout ==
    /\ lastCall.op = "removePushTokenForUser"
    /\ lastCall.argument = "u2"
    /\ lastCall.token = "tk3"
    /\ users["u2"].fcmTokens.items = <<"tk1", "tk2">>

\* the uids of the recipients a resolver returned
ReturnedUids == {lastCall.value[i].uid : i \in 1..Len(lastCall.value)}

Resolved(op) == lastCall.op = op /\ lastCall.argument # "" /\ lastCall.lookup = "ok"

\* C16: resolveByVehicle(vehicleId) returns exactly the user records whose
\* normalized vehicle assignment is vehicleId and whose role is student,
\* coadmin or incharge (whatever its letter case), each once and with the
\* role, vehicle and uid of its record; for an empty vehicleId it returns
\* nothing.
C16_ResolveByVehicle ==
    /\ Resolved("getRecipientsByBus") =>
          /\ ~lastCall.raised
          /\ ReturnedUids =
                {uid \in Uids :
                    /\ users[uid].exists
                    /\ normalizeBusNumber(users[uid].busNumber) = lastCall.argument
                    /\ toLowerCase(users[uid].role) \in {"student", "coadmin", "incharge"}}
          /\ Len(lastCall.value) = Cardinality(ReturnedUids)
          /\ \A i \in 1..Len(lastCall.value) :
                /\ lastCall.value[i].busNumber = lastCall.argument
                /\ lastCall.value[i].role \in {"student", "coadmin", "incharge"}
    /\ (lastCall.op = "getRecipientsByBus" /\ lastCall.argument = "") =>
          lastCall.value = << >>

\* bus B-12: the coadmin u1 is returned, u2 of the same bus is a driver
C16_Witness ==
    /\ Resolved("getRecipientsByBus")
    /\ lastCall.argument = "B-12"
    /\ users["u1"].role = "coadmin"
    /\ users["u2"].exists /\ users["u2"].role = "driver" /\ users["u2"].busNumber = "B-12"
    /\ ReturnedUids = {"u1"}

\* bus B-7: the student u2 is returned, the coadmin u1 is of bus B-12
C16_WitnessOtherVehicle ==
    /\ Resolved("getRecipientsByBus")
    /\ lastCall.argument = "B-7"
    /\ users["u1"].role = "coadmin"
    /\ users["u2"].exists /\ users["u2"].role = "Student"
    /\ ReturnedUids = {"u2"}

\* the tokens a resolver call returned, over all its recipients
ReturnedTokens ==
    Range(lastCall.tokens) \cup RecipientTokens(lastCall.value)

\* empty, or nothing but white space
BlankTokens == {"", " "}

\* C17: every token returned by resolveByVehicle, resolveByRole and
\* getTokensForUser is neither empty nor blank.
C17_NoBlankTokens ==
    lastCall.op \in {"getRecipientsByBus", "getRecipientsByRole", "getTokensForUser"} =>
        ReturnedTokens \cap BlankTokens = {}

\* C18: when the directory read of resolveByVehicle or resolveByRole fails
\* with an I/O error the call raises and returns no list.
C18_LookupFailureSurfaces ==
    (/\ lastCall.op \in {"getRecipientsByBus", "getRecipientsByRole"}
     /\ lastCall.lookup = "error") =>
        /\ lastCall.raised
        /\ lastCall.value = << >>

C18_Witness ==
    /\ lastCall.op = "getRecipientsByBus"
    /\ lastCall.argument = "B-12"
    /\ lastCall.lookup = "error"
    /\ lastCall.raised
    /\ users["u1"].role = "coadmin"

C18_WitnessByRole ==
    /\ lastCall.op = "getRecipientsByRole"
    /\ lastCall.argument = "management"
    /\ lastCall.lookup = "error"
    /\ lastCall.raised
    /\ users["u2"].exists /\ users["u2"].role = "management"

\* the tokens of uid among the multicast targets of the last relay call that
\* the gateway reported as permanently invalid
ReportedInvalid(uid) ==
    {t \in lastRelay.targets :
        /\ <<t, "invalid">> \in lastRelay.results
        /\ \E i \in 1..Len(lastRelay.recipients) :
              /\ lastRelay.recipients[i].uid = uid
              /\ t \in Range(lastRelay.recipients[i].tokens)}

\* C19: within one relay call removeTokens is invoked at most once per uid,
\* with exactly the tokens of that uid that the gateway reported permanently
\* invalid; a token that was delivered or failed transiently is never passed.
C19_PruneOncePerUid ==
    Relayed =>
        LET calls == lastRelay.pruneCalls
        IN /\ \A i, j \in 1..Len(calls) : calls[i].uid = calls[j].uid => i = j
           /\ \A i \in 1..Len(calls) :
                 /\ Range(calls[i].tokens) = ReportedInvalid(calls[i].uid)
                 /\ Len(calls[i].tokens) = Cardinality(ReportedInvalid(calls[i].uid))
                 /\ \A t \in Range(calls[i].tokens) :
                       /\ <<t, "delivered">> \notin lastRelay.results
                       /\ <<t, "transient">> \notin lastRelay.results

\* two invalid tokens of u1 go to the pruner in one call, the invalid token of
\* u2 in another, and a token that failed transiently in none
C19_Witness ==
    /\ Relayed
    /\ Len(lastRelay.pruneCalls) = 2
    /\ lastRelay.pruneCalls[1] = [uid |-> "u1", tokens |-> <<"tk1", "tk2">>]
    /\ lastRelay.pruneCalls[2].uid = "u2"
    /\ <<" ", "transient">> \in lastRelay.results


(***************************************************************************)
(* Backend client (backendClient.js) and the two calls of the push         *)
(* notification service that post to it.  A string is the sequence of its *)
(* parts: " " is white space, "/" a slash, ":" a colon.                    *)
(***************************************************************************)
DEFAULT_ANDROID == <<"http://10.0.2.2", ":4000">>
DEFAULT_IOS == <<"http://127.0.0.1", ":4000">>

\* value.trim(): white space is removed at both ends
RECURSIVE trim(_)
trim(value) ==
    IF Len(value) > 0 /\ Head(value) = " " THEN trim(Tail(value))
    ELSE IF Len(value) > 0 /\ value[Len(value)] = " "
         THEN trim(SubSeq(value, 1, Len(value) - 1))
    ELSE value

\* trim, then replace(/\/$/, ''): one trailing slash is removed; the
\* empty sequence stands for null as for '': both are falsy
sanitizeBaseUrl(value) ==
    LET trimmed == trim(value)
    IN IF Len(value) = 0 THEN << >>
       ELSE IF Len(trimmed) > 0 /\ trimmed[Len(trimmed)] = "/"
            THEN SubSeq(trimmed, 1, Len(trimmed) - 1)
       ELSE trimmed

\* hostUri.split(':')[0]
RECURSIVE beforeColon(_)
beforeColon(hostUri) ==
    IF Len(hostUri) = 0 \/ Head(hostUri) = ":" THEN << >>
    ELSE <<Head(hostUri)>> \o beforeColon(Tail(hostUri))

inferExpoHostUrl(hostUri) ==
    IF Len(hostUri) = 0 \/ Len(beforeColon(hostUri)) = 0 THEN << >>
    ELSE <<"http://">> \o beforeColon(hostUri) \o <<":4000">>

\* [envUrl, expoHostUrl, sanitizeBaseUrl(platformDefault)].filter(Boolean)
buildCandidateBaseUrls(config) ==
    LET envUrl == sanitizeBaseUrl(IF Len(config.baseUrl) > 0 THEN config.baseUrl
                                  ELSE config.envVar)
        expoHostUrl == sanitizeBaseUrl(inferExpoHostUrl(config.hostUri))
        platformDefault == IF config.os = "android" THEN DEFAULT_ANDROID ELSE DEFAULT_IOS
    IN SelectSeq(<<envUrl, expoHostUrl, sanitizeBaseUrl(platformDefault)>>,
                 LAMBDA url : Len(url) > 0)

\* Constants.expoConfig.extra.backend.baseUrl, the environment variable,
\* the Expo host URI and Platform.OS
Configs ==
    [baseUrl : {<< >>, <<"http://env", "/">>},
     envVar : {<< >>, <<" ", "http://lan", " ">>, <<" ">>, <<"http://10.0.2.2", ":4000">>},
     hostUri : {<< >>, <<"192.168.1.5", ":", "8081">>, <<":", "8081">>},
     os : {"android", "ios"}]

\* how a fetch settles: it rejects, or answers with a status, a text and
\* a body that parses as JSON or does not
Responses ==
    { [settled |-> "rejected", ok |-> FALSE, status |-> 0, text |-> "", json |-> ""],
      [settled |-> "responded", ok |-> FALSE, status |-> 500, text |-> "", json |-> ""],
      [settled |-> "responded", ok |-> FALSE, status |-> 500, text |-> "busy", json |-> ""],
      [settled |-> "responded", ok |-> TRUE, status |-> 200, text |-> "", json |-> ""],
      [settled |-> "responded", ok |-> TRUE, status |-> 200, text |-> "", json |-> "sent"] }

\* the message of the error the try block raises for a response ("": none)
failureOf(response) ==
    IF response.settled = "rejected" THEN "Network request failed"
    ELSE IF ~response.ok
         THEN (IF response.text # "" THEN response.text ELSE "HTTP 500")
    ELSE IF response.json = "" THEN "JSON Parse error"
    ELSE ""

Body(busNumber, initiatedBy, recipientUid) ==
    [busNumber |-> busNumber, initiatedBy |-> initiatedBy, recipientUid |-> recipientUid]

Request(op, path, body, config, status, value, error) ==
    [op |-> op, path |-> path, body |-> body, config |-> config, status |-> status,
     value |-> value, error |-> error]

\* path.startsWith('/')
startsWithSlash(path) == Len(path) > 0 /\ Head(path) = "/"

\* postJson up to its first await: the path check, the candidate list and
\* the first fetch
beginPostJson(op, path, body) ==
    IF ~startsWithSlash(path)
    THEN /\ request' = Request(op, path, body, request.config, "thrown", "",
                               "Paths passed to backendClient must start with /")
         /\ candidates' = << >>
         /\ attempts' = << >>
         /\ errors' = << >>
    ELSE /\ request' = Request(op, path, body, request.config, "pending", "", "")
         /\ candidates' = buildCandidateBaseUrls(request.config)
         /\ attempts' = << buildCandidateBaseUrls(request.config)[1] \o path >>
         /\ errors' = << >>

\* export async function postJson(path, body, options)
postJson(path) ==
    /\ request.status # "pending"
    /\ beginPostJson("postJson", path, Body("", "", ""))
    /\ UNCHANGED <<progressVars, observerVars, trackingVars, relayVars, deviceVars>>

\* variant: the payload is posted without looking at busNumber
notifyBusTrackingStartedUnchecked(busNumber, excludeUid) ==
    /\ request.status # "pending"
    /\ beginPostJson("notifyBusTrackingStarted", <<"/", "startBus">>,
                     Body(busNumber, excludeUid, ""))
    /\ UNCHANGED <<progressVars, observerVars, trackingVars, relayVars, deviceVars>>

\* notifyBusTrackingStarted({busNumber, driverName, excludeUid, excludeToken})
notifyBusTrackingStarted(busNumber, excludeUid) ==
    /\ request.status # "pending"
    /\ IF busNumber = ""
       THEN /\ request' = Request("notifyBusTrackingStarted", << >>, Null, request.config, "thrown",
                                  "", "busNumber is required to trigger bus start notifications")
            /\ candidates' = << >>
            /\ attempts' = << >>
            /\ errors' = << >>
       ELSE beginPostJson("notifyBusTrackingStarted", <<"/", "startBus">>,
                          Body(busNumber, excludeUid, ""))
    /\ UNCHANGED <<progressVars, observerVars, trackingVars, relayVars, deviceVars>>

\* sendUserNotification({recipientUid, title, body, data})
sendUserNotification(recipientUid) ==
    /\ request.status # "pending"
    /\ IF recipientUid = ""
       THEN /\ request' = Request("sendUserNotification", << >>, Null, request.config, "thrown",
                                  "", "recipientUid is required for direct notifications")
            /\ candidates' = << >>
            /\ attempts' = << >>
            /\ errors' = << >>
       ELSE beginPostJson("sendUserNotification", <<"/", "notify">>,
                          Body("", "", recipientUid))
    /\ UNCHANGED <<progressVars, observerVars, trackingVars, relayVars, deviceVars>>

\* variant: the first failure is thrown, later candidates are not tried
fetchSettledNoFallback(response) ==
    /\ request.status = "pending"
    /\ IF failureOf(response) = ""
       THEN /\ request' = [request EXCEPT !.status = "returned", !.value = response.json]
            /\ UNCHANGED <<attempts, errors>>
       ELSE /\ errors' = Append(errors, [baseUrl |-> candidates[Len(attempts)],
                                         message |-> failureOf(response)])
            /\ request' = [request EXCEPT !.status = "thrown",
                                          !.error = "All notification endpoints failed"]
            /\ UNCHANGED attempts
    /\ UNCHANGED candidates
    /\ UNCHANGED <<progressVars, observerVars, trackingVars, relayVars, deviceVars>>

\* postJson after the awaited fetch settles: return the data, or record
\* the failure and go on with the next candidate, or throw after the last
fetchSettled(response) ==
    /\ request.status = "pending"
    /\ IF failureOf(response) = ""
       THEN /\ request' = [request EXCEPT !.status = "returned", !.value = response.json]
            /\ UNCHANGED <<attempts, errors>>
       ELSE /\ errors' = Append(errors, [baseUrl |-> candidates[Len(attempts)],
                                         message |-> failureOf(response)])
            /\ IF Len(attempts) < Len(candidates)
               THEN /\ attempts' = Append(attempts,
                                          candidates[Len(attempts) + 1] \o request.path)
                    /\ UNCHANGED request
               ELSE /\ request' = [request EXCEPT !.status = "thrown",
                                                  !.error = "All notification endpoints failed"]
                    /\ UNCHANGED attempts
    /\ UNCHANGED candidates
    /\ UNCHANGED <<progressVars, observerVars, trackingVars, relayVars, deviceVars>>

\* the configuration is fixed when the app starts
BackendInit ==
    /\ request \in {[NoRequest EXCEPT !.config = config] : config \in Configs}
    /\ candidates = << >>
    /\ attempts = << >>
    /\ errors = << >>
    /\ routeStops = << >>
    /\ busLocation = Null
    /\ isBusTracking = FALSE
    /\ loading = FALSE
    /\ progress = routeProgress(routeStops, busLocation, isBusTracking)
    /\ ObserverIdle
    /\ TrackingIdle
    /\ RelayIdle
    /\ DeviceIdle

BackendNext ==
    \/ \E path \in {<<"/", "notify">>, <<"notify">>, << >>} : postJson(path)
    \/ \E busNumber \in {"", "B-12"}, excludeUid \in {"", "u1"} :
          notifyBusTrackingStarted(busNumber, excludeUid)
    \/ \E recipientUid \in {"", "u2"} : sendUserNotification(recipientUid)
    \/ \E response \in Responses : fetchSettled(response)

SpecBackend == BackendInit /\ [][BackendNext]_vars

\* C21: notifyBusTrackingStarted called without a busNumber and
\* sendUserNotification called without a recipientUid each fail with an
\* error, and no request is sent to the backend for the call.
C21_MissingArgumentFails ==
    /\ (request.op = "notifyBusTrackingStarted" /\ request.body = Null)
          => (request.status = "thrown" /\ attempts = << >>)
    /\ (request.op = "sendUserNotification" /\ request.body = Null)
          => (request.status = "thrown" /\ attempts = << >>)
    /\ (request.op \in {"notifyBusTrackingStarted", "sendUserNotification"}
          /\ request.body # Null)
          => /\ Len(attempts) > 0
             /\ (request.op = "notifyBusTrackingStarted") => request.body.busNumber # ""
             /\ (request.op = "sendUserNotification") => request.body.recipientUid # ""

C21_Witness ==
    /\ request.op = "notifyBusTrackingStarted"
    /\ request.body = Null
    /\ request.status = "thrown"
    /\ request.error = "busNumber is required to trigger bus start notifications"
    /\ attempts = << >>

C21_WitnessDirect ==
    /\ request.op = "sendUserNotification"
    /\ request.body = Null
    /\ request.status = "thrown"
    /\ request.error = "recipientUid is required for direct notifications"
    /\ attempts = << >>

\* the configured URL, the Expo host URL and the platform default of a
\* configuration, in that order, without the missing ones
Configured(config) ==
    IF config.baseUrl = <<"http://env", "/">> THEN <<"http://env">>
    ELSE IF config.envVar = <<" ", "http://lan", " ">> THEN <<"http://lan">>
    ELSE IF config.envVar = <<"http://10.0.2.2", ":4000">> THEN config.envVar
    ELSE << >>

ExpoHost(config) ==
    IF config.hostUri = <<"192.168.1.5", ":", "8081">>
    THEN <<"http://", "192.168.1.5", ":4000">> ELSE << >>

PlatformDefault(config) ==
    IF config.os = "android" THEN <<"http://10.0.2.2", ":4000">>
    ELSE <<"http://127.0.0.1", ":4000">>

ExpectedCandidates(config) ==
    (IF Configured(config) = << >> THEN << >> ELSE <<Configured(config)>>)
      \o (IF ExpoHost(config) = << >> THEN << >> ELSE <<ExpoHost(config)>>)
      \o <<PlatformDefault(config)>>

Posting == request.status # "idle" /\ startsWithSlash(request.path)

\* C26: postJson contacts the candidate base URLs strictly in the order
\* configured URL, Expo host URL, platform default, at most once per
\* candidate; it returns the data of the first candidate that answers OK
\* with parseable JSON and contacts none after it; it throws only after
\* every candidate failed, with an error listing every attempted base URL;
\* a path that does not start with '/' is rejected before any request.
C26_OrderedFallback ==
    /\ Posting =>
          /\ candidates = ExpectedCandidates(request.config)
          /\ Len(attempts) <= Len(candidates)
          /\ \A i \in 1..Len(attempts) : attempts[i] = candidates[i] \o request.path
          /\ \A i \in 1..Len(errors) : errors[i].baseUrl = candidates[i]
          /\ request.status = "pending" => Len(errors) = Len(attempts) - 1
          /\ request.status = "returned"
                => (request.value = "sent" /\ Len(errors) = Len(attempts) - 1)
          /\ request.status = "thrown"
                => (Len(attempts) = Len(candidates) /\ Len(errors) = Len(candidates))
    /\ (request.status # "idle" /\ request.body # Null /\ ~startsWithSlash(request.path))
          => (request.status = "thrown" /\ attempts = << >> /\ errors = << >>)

\* the second of three candidates answers: the third is not contacted
C26_Witness ==
    /\ request.status = "returned"
    /\ Len(candidates) = 3
    /\ Len(attempts) = 2
    /\ Len(errors) = 1
    /\ candidates[1] = <<"http://env">>

\* every candidate failed: the error lists the three base URLs
C26_WitnessAllFailed ==
    /\ request.status = "thrown"
    /\ Len(candidates) = 3
    /\ Len(errors) = 3
    /\ errors[3].baseUrl = <<"http://127.0.0.1", ":4000">>
    /\ errors[1].message = "JSON Parse error"

\* a path without a leading slash
C26_WitnessBadPath ==
    /\ request.op = "postJson"
    /\ request.path = <<"notify">>
    /\ request.status = "thrown"
    /\ attempts = << >>


(***************************************************************************)
(* The token manager: useFcmTokenManager and the push notification         *)
(* service, one step per await, so that a syncToken, a token-refresh       *)
(* persist and a logout can be in flight together                          *)
(***************************************************************************)
\* syncToken() up to its first await, authService.getCurrentUser()
startSync ==
    sync' = [stage |-> "getCurrentUser", user |-> Null, token |-> "", isMounted |-> TRUE]

\* the effect of useFcmTokenManager(enabled = true): syncToken() is called
\* and the AppState listener added
useFcmTokenManager ==
    /\ hook \in {"unmounted", "cleaned"}
    /\ sync.stage = "idle"
    /\ hook' = "mounted"
    /\ startSync
    /\ UNCHANGED <<lastFcmToken, refreshListeners, refresh, removal>>
    /\ UNCHANGED <<progressVars, observerVars, trackingVars, relayVars, backendVars>>

\* the AppState listener of the effect: state === 'active'
appStateActive ==
    /\ hook = "mounted"
    /\ sync.stage = "idle"
    /\ startSync
    /\ UNCHANGED <<lastFcmToken, refreshListeners, hook, refresh, removal>>
    /\ UNCHANGED <<progressVars, observerVars, trackingVars, relayVars, backendVars>>

\* getCurrentUser() settled (null: no user, or it rejected): syncToken
\* returns when unmounted, else registerPushTokenAsync(user) runs up to its
\* permission and getToken awaits
currentUserSettled(user) ==
    /\ sync.stage = "getCurrentUser"
    /\ sync' = IF user = Null \/ ~sync.isMounted THEN NoSync
               ELSE [sync EXCEPT !.stage = "getToken", !.user = user]
    /\ UNCHANGED <<lastFcmToken, refreshListeners, hook, refresh, removal>>
    /\ UNCHANGED <<progressVars, observerVars, trackingVars, relayVars, backendVars>>

\* permission and messaging().getToken() settled: null is returned without
\* permission or token, else persistTokenForUser is awaited
deviceTokenSettled(permissionGranted, deviceToken) ==
    /\ sync.stage = "getToken"
    /\ sync' = IF ~permissionGranted \/ deviceToken = "" THEN NoSync
               ELSE [sync EXCEPT !.stage = "persist", !.token = deviceToken]
    /\ UNCHANGED <<lastFcmToken, refreshListeners, hook, refresh, removal>>
    /\ UNCHANGED <<progressVars, observerVars, trackingVars, relayVars, backendVars>>

\* persistTokenForUser settled inside registerPushTokenAsync: on success
\* the token is stored and cached and the refresh listener registered
persistSettled(write) ==
    /\ sync.stage = "persist"
    /\ IF write = "ok"
       THEN /\ users' = persistTokenResult(users, sync.user.uid, sync.token, sync.user)
            /\ lastFcmToken' = [lastFcmToken EXCEPT ![sync.user.uid] = sync.token]
            /\ cachedToken' = sync.token
            /\ registerTokenRefreshListener(sync.user)
            /\ lastCall' = ClientCall("registerPushTokenAsync", sync.user.uid, sync.token,
                                      FALSE)
       ELSE /\ UNCHANGED <<users, lastFcmToken, cachedToken, tokenRefreshUnsubscribe,
                           refreshListeners>>
            /\ lastCall' = ClientCall("registerPushTokenAsync", sync.user.uid, "", FALSE)
    /\ sync' = NoSync
    /\ UNCHANGED <<lastRelay, removeLog, hook, refresh, removal>>
    /\ UNCHANGED <<progressVars, observerVars, trackingVars, backendVars>>

\* the cleanup of the effect: isMounted = false, the AppState listener is
\* removed, cleanupNotificationListeners()
useFcmTokenManagerCleanup ==
    /\ hook = "mounted"
    /\ hook' = "cleaned"
    /\ sync' = IF sync.stage = "idle" THEN sync ELSE [sync EXCEPT !.isMounted = FALSE]
    /\ unsubscribeTokenRefresh
    /\ lastCall' = ClientCall("cleanupNotificationListeners", "", "", FALSE)
    /\ UNCHANGED <<users, lastRelay, removeLog, cachedToken, lastFcmToken, refresh, removal>>
    /\ UNCHANGED <<progressVars, observerVars, trackingVars, backendVars>>

\* messaging() hands a new token to a registered listener, which awaits
\* persistTokenForUser
tokenRefreshed(newToken) ==
    /\ Len(refreshListeners) > 0
    /\ refresh.stage = "idle"
    /\ refresh' = [stage |-> "persist", listener |-> refreshListeners[1], token |-> newToken]
    /\ UNCHANGED <<lastFcmToken, refreshListeners, hook, sync, removal>>
    /\ UNCHANGED <<progressVars, observerVars, trackingVars, relayVars, backendVars>>

\* persistTokenForUser settled inside the refresh listener (errors caught)
refreshPersistSettled(write) ==
    /\ refresh.stage = "persist"
    /\ IF write = "ok"
       THEN /\ users' = persistTokenResult(users, refresh.listener.identifier, refresh.token,
                                           refresh.listener.user)
            /\ lastFcmToken' = [lastFcmToken EXCEPT
                                  ![refresh.listener.identifier] = refresh.token]
            /\ cachedToken' = refresh.token
            /\ lastCall' = ClientCall("onTokenRefresh", refresh.listener.identifier,
                                      refresh.token, FALSE)
       ELSE /\ UNCHANGED <<users, lastFcmToken, cachedToken>>
            /\ lastCall' = ClientCall("onTokenRefresh", refresh.listener.identifier, "", FALSE)
    /\ refresh' = NoRefresh
    /\ UNCHANGED <<lastRelay, removeLog, tokenRefreshUnsubscribe, refreshListeners, hook, sync,
                   removal>>
    /\ UNCHANGED <<progressVars, observerVars, trackingVars, backendVars>>

\* removePushTokenForUser(user) up to await Promise.all(updates): the token
\* is the cached one or what getToken() answers, and both writes are issued
removePushTokenBegin(user, currentToken) ==
    LET token == IF cachedToken # "" THEN cachedToken ELSE currentToken
    IN /\ removal.stage # "writing"
       /\ removal' = [stage |-> "writing", uid |-> user.uid, token |-> token,
                      pending |-> IF token # "" THEN {"fcmTokens", "lastFcmToken"}
                                  ELSE {"lastFcmToken"},
                      failed |-> FALSE, raised |-> FALSE]
       /\ UNCHANGED <<lastFcmToken, refreshListeners, hook, sync, refresh>>
       /\ UNCHANGED <<progressVars, observerVars, trackingVars, relayVars, backendVars>>

\* one of the two writes of removePushTokenForUser settled ("error": the
\* updateDoc and its setDoc fallback both failed, which the outer catch
\* swallows); the call completes when both have settled
removeWriteSettled(field, write) ==
    /\ removal.stage = "writing"
    /\ field \in removal.pending
    /\ IF write = "ok"
       THEN /\ users' = removePushTokenResult(users, removal.uid,
                                              IF field = "fcmTokens" THEN removal.token ELSE "")
            /\ lastFcmToken' = IF field = "lastFcmToken"
                               THEN [lastFcmToken EXCEPT ![removal.uid] = ""]
                               ELSE lastFcmToken
       ELSE UNCHANGED <<users, lastFcmToken>>
    /\ removal' = [removal EXCEPT
                      !.pending = removal.pending \ {field},
                      !.failed = removal.failed \/ write # "ok",
                      !.stage = IF removal.pending = {field} THEN "done" ELSE "writing"]
    /\ lastCall' = ClientCall("removePushTokenForUser", removal.uid, removal.token, FALSE)
    /\ UNCHANGED <<lastRelay, removeLog, cachedToken, tokenRefreshUnsubscribe, refreshListeners,
                   hook, sync, refresh>>
    /\ UNCHANGED <<progressVars, observerVars, trackingVars, backendVars>>

\* the student u2 may have a document with the token of this device
TokenManagerInit ==
    /\ \E registered \in BOOLEAN :
          /\ users = [uid \in Uids |->
                        IF uid = "u2" /\ registered
                        THEN [exists |-> TRUE, role |-> "student", busNumber |-> "B-12",
                              fcmTokens |-> [isArray |-> TRUE, items |-> <<"tk1", "tk2">>]]
                        ELSE NoDocument]
          /\ lastFcmToken = [uid \in Uids |-> IF uid = "u2" /\ registered THEN "tk2" ELSE ""]
    /\ lastRelay = NoRelay
    /\ removeLog = << >>
    /\ lastCall = NoCall
    /\ ClientIdle
    /\ refreshListeners = << >>
    /\ hook = "unmounted"
    /\ sync = NoSync
    /\ refresh = NoRefresh
    /\ removal = NoRemoval
    /\ routeStops = << >>
    /\ busLocation = Null
    /\ isBusTracking = FALSE
    /\ loading = FALSE
    /\ progress = routeProgress(routeStops, busLocation, isBusTracking)
    /\ ObserverIdle
    /\ TrackingIdle
    /\ BackendIdle

TokenManagerNext ==
    \/ useFcmTokenManager
    \/ appStateActive
    \/ \E user \in DeviceUsers \cup {Null} : currentUserSettled(user)
    \/ \E permissionGranted \in BOOLEAN, deviceToken \in DeviceTokens \cup {""} :
          deviceTokenSettled(permissionGranted, deviceToken)
    \/ \E write \in Writes : persistSettled(write)
    \/ useFcmTokenManagerCleanup
    \/ \E newToken \in DeviceTokens : tokenRefreshed(newToken)
    \/ \E write \in Writes : refreshPersistSettled(write)
    \/ \E user \in DeviceUsers, currentToken \in DeviceTokens \cup {""} :
          removePushTokenBegin(user, currentToken)
    \/ \E field \in {"fcmTokens", "lastFcmToken"}, write \in Writes :
          removeWriteSettled(field, write)

SpecTokenManager == TokenManagerInit /\ [][TokenManagerNext]_vars

\* a logout whose writes all succeeded has just completed
LogoutCompleted ==
    /\ lastCall.op = "removePushTokenForUser"
    /\ removal.stage = "done"
    /\ removal.token # ""
    /\ ~removal.failed

\* C22: once removePushTokenForUser(user) has completed, the device's
\* token is not in users/{uid}.fcmTokens and lastFcmToken is null, in every
\* interleaving with a registerPushTokenAsync or a token-refresh persist
\* running for the same user; and removePushTokenForUser never throws.
C22_LogoutRemovesToken ==
    /\ LogoutCompleted
          => /\ removal.token \notin TokenSet(users[removal.uid])
             /\ lastFcmToken[removal.uid] = ""
    /\ ~removal.raised

\* C30: at most one token-refresh listener is registered at any time, and
\* once the cleanup of useFcmTokenManager (cleanupNotificationListeners) has
\* run no listener is registered until the effect runs again, even when a
\* syncToken / registerPushTokenAsync call was in flight at the cleanup.
C30_NoListenerAfterCleanup ==
    /\ Len(refreshListeners) <= 1
    /\ hook = "cleaned" => refreshListeners = << >>

====
